---- MODULE Spec2Model ----
(***************************************************************************)
(* Offline record queue, last-saved snapshot and form cache of             *)
(* enketo-express (client side), as a state machine.                       *)
(*                                                                         *)
(* The record store is the browser database shared by every page of the    *)
(* origin; a page is a single-threaded program whose promise chains        *)
(* interleave at every store transaction and network request, so each      *)
(* transaction / request is one step.                                      *)
(***************************************************************************)
EXTENDS Integers, Sequences, FiniteSets, TLC

VARIABLES
    records,     \* store.record: the stored records, in insertion order
    enketoId,    \* settings.enketoId: the survey of the open page
    saveCall,    \* records.save(...) in flight: the setLastSavedRecord it chains to
    directCall,  \* setLastSavedRecord called outside save (upload with isLastSaved)
    upload,      \* uploadQueue() in flight
    surveys,     \* store.survey: survey id -> cached definition
    hash,        \* form-cache.js module variable `hash`
    server,      \* what the origin server serves for each survey
    check,       \* _updateCache(survey) in flight
    init,        \* formCache.init(survey) in flight
    timers,      \* surveys for which _setUpdateIntervals started timers
    acked,       \* history: instance ids whose submission the server acknowledged
    created,     \* history: instance ids handed to save('set', ...)
    runLog,      \* history: submissions of the current / last uploadQueue run
    runList,     \* history: the records uploadQueue listed at the start of that run
    cacheLog,    \* history: counters of form-cache requests and events
    caches,      \* CacheStorage: partition name -> entries, or no such partition
    fetching,    \* the service worker's last fetch event and its onFetch( request )
    activation,  \* the service worker's onActivate() in flight
    claimed,     \* self.clients.claim() has been called by the active worker
    network,     \* the version of the form page and definition the origin serves
    messages,    \* the service worker's message events and their checkFormHash calls
    appCache,    \* the page's application-cache module: init( enketoId ) and after
    comm,        \* the server's communicator: a getXFormInfo( survey ) call
    wire,        \* the communicator's request to the origin server, as sent
    limiters,    \* concurrencyLimiters and the media requests handed to them
    mediaHosts,  \* the media hosts each server process has learned
    mediaURLCache \* the page's media-URL cache and the blob URLs it created

vars == <<records, enketoId, saveCall, directCall, upload, surveys, hash, server,
          check, init, timers, acked, created, runLog, runList, cacheLog,
          caches, fetching, activation, claimed, network,
          messages, appCache, comm,
          wire, limiters, mediaHosts, mediaURLCache>>

recordVars == <<records, enketoId, saveCall, directCall, upload, acked, created,
                runLog, runList>>
cacheVars == <<surveys, hash, server, check, init, timers, cacheLog>>
workerVars == <<caches, fetching, activation, claimed, network>>
serverVars == <<wire, limiters, mediaHosts, mediaURLCache>>

appVars == <<messages, appCache, comm, serverVars>>

(***************************************************************************)
(* Input sets.                                                             *)
(***************************************************************************)
Surveys == {"A", "B"}

\* Instance ids the form engine hands out for user records, in the order it
\* hands them out.
NewIds == <<"r1", "r2", "r3">>
RecordIds == {"r1", "r2", "r3"}

\* Record content: the XML and the attachments that go with it.
Contents == { [xml |-> "x1", files |-> <<>>],
              [xml |-> "x2", files |-> <<"f1">>] }

Hashes == {"h1", "h2"}

Undefined == [undefined |-> TRUE]

(***************************************************************************)
(* store.record                                                            *)
(***************************************************************************)
HasRecord(store, instanceId) ==
    \E i \in 1..Len(store) : store[i].instanceId = instanceId

RecordGet(store, instanceId) ==
    IF HasRecord(store, instanceId)
    THEN store[CHOOSE i \in 1..Len(store) : store[i].instanceId = instanceId]
    ELSE Undefined

\* store.record.set: adds; the caller sees a rejection when the key exists.
RecordSet(store, record) == Append(store, record)

\* store.record.update: replaces the stored record of the same key in place.
RecordUpdate(store, record) ==
    [i \in 1..Len(store) |->
        IF store[i].instanceId = record.instanceId THEN record ELSE store[i]]

RecordRemove(store, instanceId) ==
    SelectSeq(store, LAMBDA r : r.instanceId # instanceId)

(***************************************************************************)
(* records/last-saved.js                                                   *)
(***************************************************************************)
\* A key that leaves the survey id out.
getLastSavedInstanceIdShared(id) == "__lastSaved_"

getLastSavedInstanceId(id) == "__lastSaved_" \o id

getLastSavedRecord(store, id) == RecordGet(store, getLastSavedInstanceId(id))

\* A payload that leaves the attachments out.
LastSavedPayloadNoFiles(record) ==
    [record EXCEPT !.name = "__lastSaved_", !.files = <<>>,
                   !.instanceId = getLastSavedInstanceId(record.enketoId)]

\* A payload whose key is derived from the record's own instance id.
LastSavedPayloadByInstance(record) ==
    [record EXCEPT !.name = "__lastSaved_",
                   !.instanceId = getLastSavedInstanceId(record.instanceId)]

\* The payload setLastSavedRecord builds: the record under the pre-defined key
\* and an internal name (the time stamp in the name is left out).
LastSavedPayload(record) ==
    [record EXCEPT !.name = "__lastSaved_",
                   !.instanceId = getLastSavedInstanceId(record.enketoId)]

(***************************************************************************)
(* records/queue.js                                                        *)
(***************************************************************************)
getAutoSavedKey(id) == "__autoSave_" \o id

\* getDisplayableRecordList( enketoId, { finalOnly } )
getDisplayableRecordList(store, id, finalOnly) ==
    SelectSeq(store, LAMBDA r :
        /\ r.enketoId = id
        /\ r.instanceId # getAutoSavedKey(id)
        /\ r.instanceId # getLastSavedInstanceId(id)
        /\ (finalOnly => ~r.draft))

InstanceIds(list) == [i \in 1..Len(list) |-> list[i].instanceId]

Range(seq) == {seq[i] : i \in 1..Len(seq)}

(***************************************************************************)
(* Surveys: encryption and last-save                                       *)
(***************************************************************************)
isEncryptionEnabled(survey) == survey.encrypted

isLastSaveEnabled(survey) == ~isEncryptionEnabled(survey)

SurveyEncrypted(id) ==
    IF surveys[id] = Undefined THEN FALSE ELSE isEncryptionEnabled(surveys[id])

IdleCall == [pc |-> "idle"]
IdleUpload == [pc |-> "idle", queue |-> <<>>]

UserRecord(instanceId, content, draft) ==
    [instanceId |-> instanceId, enketoId |-> enketoId, name |-> "name",
     xml |-> content.xml, files |-> content.files, draft |-> draft,
     encrypted |-> SurveyEncrypted(enketoId)]


(***************************************************************************)
(* records.save( action, record ): the store write, then, for a non-draft  *)
(* record of a survey without encryption, setLastSavedRecord.              *)
(***************************************************************************)
\* The store write of save('set', record). The form engine gives every new
\* record an instance id of its own.
SaveSet(instanceId, content, draft) ==
    /\ saveCall.pc = "idle"
    /\ instanceId \notin created
    /\ instanceId = NewIds[Cardinality(created) + 1]
    /\ LET record == UserRecord(instanceId, content, draft) IN
       /\ records' = RecordSet(records, record)
       /\ created' = created \cup {instanceId}
       /\ saveCall' = IF ~draft /\ ~SurveyEncrypted(enketoId)
                      THEN [pc |-> "remove", record |-> record]
                      ELSE IdleCall
    /\ UNCHANGED <<enketoId, directCall, upload, acked, runLog, runList>>
    /\ UNCHANGED cacheVars
    /\ UNCHANGED <<workerVars, appVars>>

\* The store write of save('update', record): the record was loaded for
\* editing, which the application offers for draft records of the open survey;
\* an update whose target is not stored fails.
SaveUpdate(instanceId, content, draft) ==
    /\ saveCall.pc = "idle"
    /\ instanceId \in created
    /\ LET record == UserRecord(instanceId, content, draft)
           stored == RecordGet(records, instanceId) IN
       IF stored = Undefined
       THEN UNCHANGED <<records, saveCall>>
       ELSE /\ stored.draft
            /\ stored.enketoId = enketoId
            /\ records' = RecordUpdate(records, record)
            /\ saveCall' = IF ~draft /\ ~SurveyEncrypted(enketoId)
                           THEN [pc |-> "remove", record |-> record]
                           ELSE IdleCall
    /\ UNCHANGED <<enketoId, directCall, upload, acked, created, runLog, runList>>
    /\ UNCHANGED cacheVars
    /\ UNCHANGED <<workerVars, appVars>>

(***************************************************************************)
(* setLastSavedRecord( record ): store.record.remove( instanceId ), then   *)
(* store.record.set( payload ).                                            *)
(***************************************************************************)
\* A setLastSavedRecord that removes the key of the record it was given.
RemovedKeyOfRecord(record) == record.instanceId

\* The key setLastSavedRecord removes.
RemovedKey(record) == getLastSavedInstanceId(record.enketoId)

\* store.record.remove( instanceId ) of the call in flight.
LastSavedRemove(call) ==
    /\ call.pc = "remove"
    /\ records' = RecordRemove(records, RemovedKey(call.record))

\* The call after its remove; `replaced` (history) tells whether a snapshot of
\* the survey was stored when the call removed it.
AfterRemove(call) ==
    [pc |-> "set", record |-> call.record,
     replaced |-> HasRecord(records, getLastSavedInstanceId(call.record.enketoId))]

\* store.record.set( payload ): rejected when the key is stored (a concurrent
\* call set it) or when the write fails (quota, aborted transaction).
LastSavedSet(call, writeOk) ==
    /\ call.pc = "set"
    /\ LET payload == LastSavedPayload(call.record) IN
       IF writeOk /\ ~HasRecord(records, payload.instanceId)
       THEN records' = RecordSet(records, payload)
       ELSE /\ ~writeOk \/ HasRecord(records, payload.instanceId)
            /\ UNCHANGED records

SetOk(call, writeOk) ==
    writeOk /\ ~HasRecord(records, LastSavedPayload(call.record).instanceId)

SaveLastSavedRemove ==
    /\ LastSavedRemove(saveCall)
    /\ saveCall' = AfterRemove(saveCall)
    /\ UNCHANGED <<enketoId, directCall, upload, acked, created, runLog, runList>>
    /\ UNCHANGED cacheVars
    /\ UNCHANGED <<workerVars, appVars>>

SaveLastSavedSet(writeOk) ==
    /\ LastSavedSet(saveCall, writeOk)
    /\ saveCall' = IdleCall
    /\ UNCHANGED <<enketoId, directCall, upload, acked, created, runLog, runList>>
    /\ UNCHANGED cacheVars
    /\ UNCHANGED <<workerVars, appVars>>

\* setLastSavedRecord( record ) called by itself, as connection.uploadRecord(
\* record, { isLastSaved: true } ) does: any record of the open survey,
\* encrypted or not.
SetLastSavedRecord(instanceId, content, encrypted) ==
    /\ directCall.pc = "idle"
    /\ directCall' = [pc |-> "remove",
                      record |-> [UserRecord(instanceId, content, FALSE)
                                    EXCEPT !.encrypted = encrypted]]
    /\ UNCHANGED <<records, enketoId, saveCall, upload, acked, created, runLog, runList>>
    /\ UNCHANGED cacheVars
    /\ UNCHANGED <<workerVars, appVars>>

DirectLastSavedRemove ==
    /\ LastSavedRemove(directCall)
    /\ directCall' = AfterRemove(directCall)
    /\ UNCHANGED <<enketoId, saveCall, upload, acked, created, runLog, runList>>
    /\ UNCHANGED cacheVars
    /\ UNCHANGED <<workerVars, appVars>>

DirectLastSavedSet(writeOk) ==
    /\ LastSavedSet(directCall, writeOk)
    /\ directCall' = IdleCall
    /\ UNCHANGED <<enketoId, saveCall, upload, acked, created, runLog, runList>>
    /\ UNCHANGED cacheVars
    /\ UNCHANGED <<workerVars, appVars>>

(***************************************************************************)
(* records.updateAutoSavedRecord( record )                                 *)
(***************************************************************************)
AutoSavedRecord(content) ==
    [instanceId |-> getAutoSavedKey(enketoId), enketoId |-> enketoId,
     name |-> "__autoSave_", xml |-> content.xml, files |-> content.files,
     draft |-> TRUE, encrypted |-> FALSE]

\* An upsert that keeps the attachments of the stored autosave record.
AutoSaveKeepFiles(store, record) ==
    IF HasRecord(store, record.instanceId)
    THEN RecordUpdate(store, [record EXCEPT
            !.files = RecordGet(store, record.instanceId).files])
    ELSE RecordSet(store, record)

\* The upsert of the autosave record.
AutoSaveWrite(store, record) ==
    IF HasRecord(store, record.instanceId)
    THEN RecordUpdate(store, record)
    ELSE RecordSet(store, record)

UpdateAutoSavedRecord(content) ==
    /\ records' = AutoSaveWrite(records, AutoSavedRecord(content))
    /\ UNCHANGED <<enketoId, saveCall, directCall, upload, acked, created, runLog, runList>>
    /\ UNCHANGED <<workerVars, appVars>>
    /\ UNCHANGED cacheVars
    /\ UNCHANGED <<workerVars, appVars>>

(***************************************************************************)
(* records.uploadQueue()                                                   *)
(***************************************************************************)
\* The list of the run: the stored final records of the open survey.
UploadStart ==
    /\ upload.pc = "idle"
    /\ LET list == InstanceIds(getDisplayableRecordList(records, enketoId, TRUE)) IN
       /\ list # <<>>
       /\ upload' = [pc |-> "submit", queue |-> list]
       /\ runList' = list
    /\ runLog' = <<>>
    /\ UNCHANGED <<records, enketoId, saveCall, directCall, acked, created>>
    /\ UNCHANGED cacheVars
    /\ UNCHANGED <<workerVars, appVars>>

\* An uploadQueue that gives up at the first failure.
AfterFailureAbort(queue) == <<>>

\* What uploadQueue does with the queue after a submission that failed.
AfterFailure(queue) == Tail(queue)

NextUpload(queue) ==
    IF queue = <<>> THEN IdleUpload ELSE [pc |-> "submit", queue |-> queue]

\* connection.uploadRecord( record ) for the head of the queue, and its outcome.
UploadSubmit(ok) ==
    /\ upload.pc = "submit"
    /\ LET instanceId == Head(upload.queue) IN
       /\ runLog' = Append(runLog, [id |-> instanceId, ok |-> ok])
       /\ acked' = IF ok THEN acked \cup {instanceId} ELSE acked
       /\ upload' = IF ok THEN [upload EXCEPT !.pc = "remove"]
                    ELSE NextUpload(AfterFailure(upload.queue))
    /\ UNCHANGED <<records, enketoId, saveCall, directCall, created, runList>>
    /\ UNCHANGED cacheVars
    /\ UNCHANGED <<workerVars, appVars>>

\* store.record.remove( instanceId ) after the acknowledgment.
UploadRemove ==
    /\ upload.pc = "remove"
    /\ LET instanceId == Head(upload.queue) IN
       /\ records' = RecordRemove(records, instanceId)
       /\ upload' = NextUpload(Tail(upload.queue))
    /\ UNCHANGED <<enketoId, saveCall, directCall, acked, created, runLog, runList>>
    /\ UNCHANGED cacheVars
    /\ UNCHANGED <<workerVars, appVars>>

(***************************************************************************)
(* form-cache.js                                                           *)
(***************************************************************************)
\* A hash identifies one definition; the definition of hash "h2" has
\* encryption enabled.
FormParts(id, version) ==
    [enketoId |-> id, hash |-> version, encrypted |-> (version = "h2")]

Outcomes == {"ok", "notfound", "unauthorized", "offline"}

IdleCheck == [pc |-> "idle"]
IdleInit == [pc |-> "idle"]

\* The history counters count up to these and stay there.
MaxInits == 3
MaxFetches == 2
MaxEvents == 2

\* document.dispatchEvent( events.FormUpdated() ), counted.
Dispatched(n) == IF n < MaxEvents THEN n + 1 ELSE n

\* What init does with the result of get( survey ): TRUE when it goes on to
\* set( survey ), the full-definition request.
InitFetches(result) == result = Undefined

\* init( survey ): store.init(), then get( survey ); without a cached survey,
\* set( survey ) issues connection.getFormParts( survey ). Calls of init may
\* overlap: `k` is the call.
InitGet(k, id) ==
    /\ init[k].pc = "idle"
    /\ LET result == surveys[id] IN
       /\ init' = [init EXCEPT ![k] =
                     IF InitFetches(result)
                     THEN [pc |-> "parts", enketoId |-> id]
                     ELSE [pc |-> "intervals", enketoId |-> id, survey |-> result]]
       /\ cacheLog' = [cacheLog EXCEPT
                          !.initCalls = IF @ < MaxInits THEN @ + 1 ELSE @,
                          !.inited = @ \cup {id},
                          !.overlap = @ \/ \E j \in DOMAIN init : init[j].pc # "idle",
                          !.formParts = IF InitFetches(result) /\ @ < MaxFetches
                                        THEN @ + 1 ELSE @]
    /\ UNCHANGED <<surveys, hash, server, check, timers>>
    /\ UNCHANGED recordVars
    /\ UNCHANGED <<workerVars, appVars>>

\* The response of connection.getFormParts( survey ) in set( survey ).
InitParts(k, outcome) ==
    /\ init[k].pc = "parts"
    /\ init' = [init EXCEPT ![k] =
                  IF outcome = "ok"
                  THEN [pc |-> "store", enketoId |-> init[k].enketoId,
                        survey |-> FormParts(init[k].enketoId, server[init[k].enketoId])]
                  ELSE IdleInit]
    /\ UNCHANGED <<surveys, hash, server, check, timers, cacheLog>>
    /\ UNCHANGED recordVars
    /\ UNCHANGED <<workerVars, appVars>>

\* store.survey.set of set( survey ): the write is made or rejected.
InitStore(k, writeOk) ==
    /\ init[k].pc = "store"
    /\ IF writeOk
       THEN /\ surveys' = [surveys EXCEPT ![init[k].enketoId] = init[k].survey]
            /\ init' = [init EXCEPT ![k].pc = "intervals"]
       ELSE /\ init' = [init EXCEPT ![k] = IdleInit]
            /\ UNCHANGED surveys
    /\ UNCHANGED <<hash, server, check, timers, cacheLog>>
    /\ UNCHANGED recordVars
    /\ UNCHANGED <<workerVars, appVars>>

\* _setUpdateIntervals( survey ), after _processDynamicData: remembers the
\* hash and starts the two timers.
InitIntervals(k) ==
    /\ init[k].pc = "intervals"
    /\ hash' = init[k].survey.hash
    /\ timers' = [timers EXCEPT ![init[k].enketoId] = TRUE]
    /\ init' = [init EXCEPT ![k] = IdleInit]
    /\ cacheLog' = [cacheLog EXCEPT !.initDone = IF @ < MaxInits THEN @ + 1 ELSE @]
    /\ UNCHANGED <<surveys, server, check>>
    /\ UNCHANGED recordVars
    /\ UNCHANGED <<workerVars, appVars>>

\* A comparison that never finds the cached survey up to date.
UpToDateNever(remembered, version) == FALSE

\* The comparison _updateCache makes: TRUE when the cached survey is up to date.
UpToDate(remembered, version) == remembered = version

\* A flush that empties the record store as well.
FlushRecords ==
    /\ \E id \in Surveys : surveys[id] # Undefined
    /\ surveys' = [id \in Surveys |-> Undefined]
    /\ records' = <<>>
    /\ cacheLog' = [cacheLog EXCEPT !.evicted = TRUE]
    /\ UNCHANGED <<hash, server, check, init, timers>>
    /\ UNCHANGED <<enketoId, saveCall, directCall, upload, acked, created, runLog, runList>>
    /\ UNCHANGED <<workerVars, appVars>>

\* A handler that removes the survey whatever the error is.
EvictsAlways(outcome) == TRUE

\* The catch handler of _updateCache: error.status === 404 || 401.
Evicts(outcome) == outcome \in {"notfound", "unauthorized"}

\* A check that leaves the remembered hash as it was.
RememberedHashKept(result) == hash

\* _updateCache: hash = result.hash
RememberedHash(result) == result.hash

\* A timer of `id` fires: _updateCache( survey ) issues getFormPartsHash.
CheckStart(c, id) ==
    /\ timers[id]
    /\ check[c].pc = "idle"
    /\ check' = [check EXCEPT ![c] = [pc |-> "hash", enketoId |-> id]]
    /\ UNCHANGED <<surveys, hash, server, init, timers, cacheLog>>
    /\ UNCHANGED recordVars
    /\ UNCHANGED <<workerVars, appVars>>

\* The response of getFormPartsHash: up to date, or outdated and
\* getFormParts is issued, or the catch handler.
CheckHash(c, outcome) ==
    /\ check[c].pc = "hash"
    /\ LET id == check[c].enketoId
           fetch == outcome = "ok" /\ ~UpToDate(hash, server[id]) IN
       /\ check' = [check EXCEPT ![c] =
             IF outcome = "ok"
             THEN IF fetch THEN [pc |-> "parts", enketoId |-> id] ELSE IdleCheck
             ELSE IF Evicts(outcome)
                  THEN [pc |-> "evict", enketoId |-> id]
                  ELSE IdleCheck]
       /\ cacheLog' = [cacheLog EXCEPT
             !.formParts = IF fetch /\ @ < MaxFetches THEN @ + 1 ELSE @,
             !.upToDate = @ \/ (outcome = "ok" /\ ~fetch),
             !.swallowed = @ \/ (outcome # "ok" /\ ~Evicts(outcome))]
    /\ UNCHANGED <<surveys, hash, server, init, timers>>
    /\ UNCHANGED recordVars
    /\ UNCHANGED <<workerVars, appVars>>

\* The response of getFormParts in _updateCache; updateSurveyCache then
\* removes the last-saved record first when last-save is not enabled.
CheckParts(c, outcome) ==
    /\ check[c].pc = "parts"
    /\ LET id == check[c].enketoId
           formParts == FormParts(id, server[id]) IN
       check' = [check EXCEPT ![c] =
             IF outcome = "ok"
             THEN [pc |-> IF isLastSaveEnabled(formParts) THEN "update" ELSE "removeLastSaved",
                   enketoId |-> id, survey |-> formParts]
             ELSE IF Evicts(outcome)
                  THEN [pc |-> "evict", enketoId |-> id]
                  ELSE IdleCheck]
    /\ cacheLog' = [cacheLog EXCEPT
          !.swallowed = @ \/ (outcome # "ok" /\ ~Evicts(outcome))]
    /\ UNCHANGED <<surveys, hash, server, init, timers>>
    /\ UNCHANGED recordVars
    /\ UNCHANGED <<workerVars, appVars>>

\* removeLastSavedRecord( enketoId )
removeLastSavedRecord(store, id) == RecordRemove(store, getLastSavedInstanceId(id))

\* updateSurveyCache: removeLastSavedRecord( survey.enketoId )
CheckRemoveLastSaved(c) ==
    /\ check[c].pc = "removeLastSaved"
    /\ records' = removeLastSavedRecord(records, check[c].enketoId)
    /\ check' = [check EXCEPT ![c].pc = "update"]
    /\ UNCHANGED <<enketoId, saveCall, directCall, upload, acked, created, runLog, runList>>
    /\ UNCHANGED <<workerVars, appVars>>
    /\ UNCHANGED <<surveys, hash, server, init, timers, cacheLog>>

\* updateSurveyCache: store.survey.update( survey ); then _updateCache
\* remembers the new hash and, with last-save enabled, dispatches FormUpdated.
\* A failed write ends in the catch handler.
CheckUpdate(c, writeOk) ==
    /\ check[c].pc = "update"
    /\ LET id == check[c].enketoId
           result == check[c].survey IN
       IF writeOk
       THEN /\ surveys' = [surveys EXCEPT ![id] = result]
            /\ hash' = RememberedHash(result)
            /\ check' = [check EXCEPT ![c] =
                  IF isLastSaveEnabled(result) THEN IdleCheck
                  ELSE [pc |-> "removeLastSaved2", enketoId |-> id]]
            /\ cacheLog' = [cacheLog EXCEPT
                  !.formUpdated = IF isLastSaveEnabled(result)
                                  THEN Dispatched(@) ELSE @]
       ELSE /\ check' = [check EXCEPT ![c] = IdleCheck]
            /\ cacheLog' = [cacheLog EXCEPT !.swallowed = TRUE]
            /\ UNCHANGED <<surveys, hash>>
    /\ UNCHANGED <<server, init, timers>>
    /\ UNCHANGED recordVars
    /\ UNCHANGED <<workerVars, appVars>>

\* _updateCache: removeLastSavedRecord( result.enketoId ) when last-save is not
\* enabled, then FormUpdated is dispatched.
CheckRemoveLastSaved2(c) ==
    /\ check[c].pc = "removeLastSaved2"
    /\ records' = removeLastSavedRecord(records, check[c].enketoId)
    /\ check' = [check EXCEPT ![c] = IdleCheck]
    /\ cacheLog' = [cacheLog EXCEPT !.formUpdated = Dispatched(@)]
    /\ UNCHANGED <<enketoId, saveCall, directCall, upload, acked, created, runLog, runList>>
    /\ UNCHANGED <<workerVars, appVars>>
    /\ UNCHANGED <<surveys, hash, server, init, timers>>

\* The catch handler of _updateCache on 404 / 401: remove( survey ).
CheckEvict(c) ==
    /\ check[c].pc = "evict"
    /\ surveys' = [surveys EXCEPT ![check[c].enketoId] = Undefined]
    /\ check' = [check EXCEPT ![c] = IdleCheck]
    /\ cacheLog' = [cacheLog EXCEPT !.evicted = TRUE]
    /\ UNCHANGED <<hash, server, init, timers>>
    /\ UNCHANGED recordVars
    /\ UNCHANGED <<workerVars, appVars>>

\* remove( survey )
Remove(id) ==
    /\ surveys[id] # Undefined
    /\ surveys' = [surveys EXCEPT ![id] = Undefined]
    /\ cacheLog' = [cacheLog EXCEPT !.evicted = TRUE]
    /\ UNCHANGED <<hash, server, check, init, timers>>
    /\ UNCHANGED recordVars
    /\ UNCHANGED <<workerVars, appVars>>

\* flush(): store.survey.removeAll()
Flush ==
    /\ \E id \in Surveys : surveys[id] # Undefined
    /\ surveys' = [id \in Surveys |-> Undefined]
    /\ cacheLog' = [cacheLog EXCEPT !.evicted = TRUE]
    /\ UNCHANGED <<hash, server, check, init, timers>>
    /\ UNCHANGED recordVars
    /\ UNCHANGED <<workerVars, appVars>>

(***************************************************************************)
(* The environment: the origin server and the page.                        *)
(***************************************************************************)
\* The form is changed on the server.
ServerUpdate(id, version) ==
    /\ server[id] # version
    /\ server' = [server EXCEPT ![id] = version]
    /\ cacheLog' = [cacheLog EXCEPT !.changed = TRUE]
    /\ UNCHANGED <<surveys, hash, check, init, timers>>
    /\ UNCHANGED recordVars
    /\ UNCHANGED <<workerVars, appVars>>

\* The page is closed, crashes or is reloaded, and a page for survey `id`
\* opens: every call in flight and the module state are gone, the stores stay.
Reload(id) ==
    /\ enketoId' = id
    /\ saveCall' = IdleCall
    /\ directCall' = IdleCall
    /\ upload' = IdleUpload
    /\ check' = [c \in DOMAIN check |-> IdleCheck]
    /\ init' = [k \in DOMAIN init |-> IdleInit]
    /\ timers' = [s \in Surveys |-> FALSE]
    /\ hash' = "undefined"
    /\ runLog' = <<>>
    /\ runList' = <<>>
    /\ UNCHANGED <<records, acked, created, surveys, server, cacheLog>>
    /\ UNCHANGED <<workerVars, appVars>>

(***************************************************************************)
(* offline-app-worker.js: the service worker                               *)
(***************************************************************************)
FORMS_CACHE == "enketo-forms"
STATIC_CACHE == "enketo-common"

\* The partitions of CacheStorage: the two of this version and one left by an
\* earlier version.
CacheNames == {FORMS_CACHE, STATIC_CACHE, "anything-else"}

\* A URL of the worker's origin: the segments of its path (a last segment ""
\* is a trailing slash) and its query string.
Url(path, query) == [path |-> path, query |-> query]

FormA == Url(<<"x", "a">>, "")
FormB == Url(<<"x", "b">>, "")
FormAQuery == Url(<<"x", "a">>, "lang=fr")
Media == Url(<<"media", "get", "a", "f.xml">>, "")
Script == Url(<<"x", "js", "enketo-webform.js">>, "")
TransformA == Url(<<"transform", "xform", "a">>, "")
TransformAQuery == Url(<<"transform", "xform", "a">>, "lang=fr")
Urls == {FormA, FormB, FormAQuery, Media, Script, TransformA, TransformAQuery}

\* /\/x\/[^/]+\/?$/.test( pathname )
IsFormPath(path) ==
    \E i \in 1..Len(path) :
        /\ path[i] = "x"
        /\ \/ Len(path) = i + 1 /\ path[i + 1] # ""
           \/ Len(path) = i + 2 /\ path[i + 1] # "" /\ path[i + 2] = ""

\* The requests of the fetch events: referrer "" (none), "self" (the URL
\* itself) or "other".
Req(url, method, sameOrigin, referrer) ==
    [url |-> url, method |-> method, sameOrigin |-> sameOrigin, referrer |-> referrer]

Requests ==
    {Req(FormA, "GET", TRUE, r) : r \in {"", "self", "other"}}
      \cup {Req(u, "GET", TRUE, "") : u \in {FormB, FormAQuery}}
      \cup {Req(u, "GET", TRUE, "other") : u \in {Media, Script}}
      \cup {Req(FormA, "POST", TRUE, ""), Req(Media, "GET", FALSE, "other")}

\* A cache key that keeps the form id.
cacheKeyPerForm(request) == request.url

\* onFetch: isFormPageRequest
isFormPageRequest(request) ==
    IsFormPath(request.url.path) /\ request.referrer \in {"", "self"}

\* url.replace( /\/x\/.*/, '/x/' )
ShellUrl(url) ==
    LET at == {i \in 1..(Len(url.path) - 1) : url.path[i] = "x"} IN
    IF at = {} THEN url
    ELSE LET i == CHOOSE i \in at : \A j \in at : i <= j IN
         Url(SubSeq(url.path, 1, i) \o <<"">>, "")

\* onFetch: cacheKey
cacheKey(request) ==
    IF isFormPageRequest(request) THEN ShellUrl(request.url) ELSE request.url

Keys == Urls \cup {ShellUrl(u) : u \in Urls}

StaticDirs == {"css", "fonts", "images", "js", "locales"}

\* cacheStorageKey( url )
cacheStorageKey(url) ==
    IF \/ /\ Len(url.path) >= 2 /\ url.query = ""
          /\ url.path[Len(url.path) - 1] = "x" /\ url.path[Len(url.path)] = ""
       \/ \E i \in 1..(Len(url.path) - 1) :
             /\ url.path[i] = "x"
             /\ \/ url.path[i + 1] \in StaticDirs /\ i + 1 < Len(url.path)
                \/ url.path[i + 1] = "offline-app-worker.js"
    THEN STATIC_CACHE
    ELSE FORMS_CACHE

\* Responses: no response, the sentinel, and what the origin answers.
NoResponse == [status |-> 0, type |-> "none", body |-> ""]
Sentinel == [status |-> 204, type |-> "default", body |-> ""]
Ok(body) == [status |-> 200, type |-> "basic", body |-> body]
NotFound == [status |-> 404, type |-> "basic", body |-> ""]
Opaque == [status |-> 200, type |-> "opaque", body |-> ""]

Versions == {"v1", "v2"}

\* What the origin answers to a request that reaches it.
Served(url) ==
    IF IsFormPath(url.path) \/ url.path = TransformA.path THEN Ok(network)
    ELSE IF url = Media THEN Ok("media") ELSE Ok("script")

NoCache == [open |-> FALSE, entries |-> [k \in Keys |-> NoResponse]]
EmptyCache == [open |-> TRUE, entries |-> [k \in Keys |-> NoResponse]]

\* caches.match( key )
Match(storage, key) ==
    LET hits == {n \in CacheNames : storage[n].entries[key] # NoResponse} IN
    IF hits = {} THEN NoResponse
    ELSE storage[CHOOSE n \in hits : TRUE].entries[key]

\* cacheResponse( key, response ): caches.open, cache.put
cacheResponse(storage, key, response) ==
    [storage EXCEPT ![cacheStorageKey(key)] =
        [open |-> TRUE, entries |-> [@.entries EXCEPT ![key] = response]]]

IdleFetch == [pc |-> "idle"]
IdleActivation == [pc |-> "idle", pending |-> {}]

\* A listener that looks at the origin only.
HandlesAnyMethod(request) == request.sameOrigin

\* The fetch listener: respondWith( onFetch( request ) ) for a GET request of
\* the worker's origin, otherwise nothing.
Handles(request) == request.method = "GET" /\ request.sameOrigin

FetchEvent(request) ==
    /\ fetching.pc \in {"idle", "passed", "responded", "failed"}
    /\ fetching' = IF Handles(request)
                   THEN [pc |-> "match", request |-> request]
                   ELSE [pc |-> "passed", request |-> request]
    /\ UNCHANGED <<caches, activation, claimed, network>>
    /\ UNCHANGED <<recordVars, cacheVars, appVars>>

\* A handler that returns only when it has no response at all.
ReturnedMissing(response) == response = NoResponse

\* onFetch after it has a response: returns it when it is not a 200 of type
\* basic or default, otherwise goes on to cache it.
Returned(response) ==
    \/ response = NoResponse
    \/ response.status # 200
    \/ response.type \notin {"basic", "default"}

AfterResponse(request, response) ==
    IF Returned(response)
    THEN [pc |-> "responded", request |-> request, response |-> response]
    ELSE [pc |-> IF isFormPageRequest(request) THEN "sentinel" ELSE "put",
          request |-> request, response |-> response]

\* A handler that goes to the network first, whatever the cache holds.
OnFetchNetworkFirst ==
    /\ fetching.pc = "match"
    /\ fetching' = [pc |-> "fetch", request |-> fetching.request]
    /\ UNCHANGED <<caches, activation, claimed, network>>
    /\ UNCHANGED <<recordVars, cacheVars, appVars>>

\* onFetch: cached = await caches.match( cacheKey )
OnFetchMatch ==
    /\ fetching.pc = "match"
    /\ LET cached == Match(caches, cacheKey(fetching.request)) IN
       fetching' = IF cached = NoResponse
                   THEN [pc |-> "fetch", request |-> fetching.request]
                   ELSE AfterResponse(fetching.request, cached)
    /\ UNCHANGED <<caches, activation, claimed, network>>
    /\ UNCHANGED <<recordVars, cacheVars, appVars>>

FetchOutcomes == {"ok", "offline", "notfound", "opaque"}

\* onFetch: response = await fetch( request, FETCH_OPTIONS ), failures caught
OnFetchNetwork(outcome) ==
    /\ fetching.pc = "fetch"
    /\ LET response == CASE outcome = "ok" -> Served(fetching.request.url)
                         [] outcome = "offline" -> NoResponse
                         [] outcome = "notfound" -> NotFound
                         [] outcome = "opaque" -> Opaque IN
       fetching' = AfterResponse(fetching.request, response)
    /\ UNCHANGED <<caches, activation, claimed, network>>
    /\ UNCHANGED <<recordVars, cacheVars, appVars>>

\* onFetch: await cacheResponse( url, new Response( null, { status: 204 } ) )
OnFetchSentinel(writeOk) ==
    /\ fetching.pc = "sentinel"
    /\ IF writeOk
       THEN /\ caches' = cacheResponse(caches, fetching.request.url, Sentinel)
            /\ fetching' = [fetching EXCEPT !.pc = "put"]
       ELSE /\ fetching' = [pc |-> "failed", request |-> fetching.request]
            /\ UNCHANGED caches
    /\ UNCHANGED <<activation, claimed, network>>
    /\ UNCHANGED <<recordVars, cacheVars, appVars>>

\* onFetch: await cacheResponse( cacheKey, response.clone() ); return response
OnFetchPut(writeOk) ==
    /\ fetching.pc = "put"
    /\ IF writeOk
       THEN /\ caches' = cacheResponse(caches, cacheKey(fetching.request),
                                       fetching.response)
            /\ fetching' = [fetching EXCEPT !.pc = "responded"]
       ELSE /\ fetching' = [pc |-> "failed", request |-> fetching.request]
            /\ UNCHANGED caches
    /\ UNCHANGED <<activation, claimed, network>>
    /\ UNCHANGED <<recordVars, cacheVars, appVars>>

\* The activate event of a new version of the worker: waitUntil( onActivate() ).
ActivateEvent ==
    /\ activation.pc \in {"idle", "done"}
    /\ activation' = [pc |-> "keys", pending |-> activation.pending]
    /\ claimed' = FALSE
    /\ UNCHANGED <<caches, fetching, network>>
    /\ UNCHANGED <<recordVars, cacheVars, appVars>>

\* The partitions removeStaleCaches calls caches.delete for.
Stale(names) == names \ {FORMS_CACHE}

\* removeStaleCaches: caches.keys(), then caches.delete( key ) for each stale
\* key; the deletions are not waited for.
RemoveStaleCaches ==
    /\ activation.pc = "keys"
    /\ activation' = [pc |-> "claim",
                      pending |-> activation.pending \cup
                                  Stale({n \in CacheNames : caches[n].open})]
    /\ UNCHANGED <<caches, fetching, claimed, network>>
    /\ UNCHANGED <<recordVars, cacheVars, appVars>>

\* A caches.delete( key ) completes.
CacheDelete(name) ==
    /\ name \in activation.pending
    /\ caches' = [caches EXCEPT ![name] = NoCache]
    /\ activation' = [activation EXCEPT !.pending = @ \ {name}]
    /\ UNCHANGED <<fetching, claimed, network>>
    /\ UNCHANGED <<recordVars, cacheVars, appVars>>

\* onActivate: await self.clients.claim(), and the promise resolves.
ClientsClaim ==
    /\ activation.pc = "claim"
    /\ claimed' = TRUE
    /\ activation' = [activation EXCEPT !.pc = "done"]
    /\ UNCHANGED <<caches, fetching, network>>
    /\ UNCHANGED <<recordVars, cacheVars, appVars>>

\* The browser stops the worker: the handlers in flight are gone, CacheStorage
\* and the deletions asked for stay.
WorkerStop ==
    /\ fetching.pc \in {"match", "fetch", "sentinel", "put"} \/ activation.pc \in {"keys", "claim"}
    /\ fetching' = IF fetching.pc \in {"match", "fetch", "sentinel", "put"}
                   THEN IdleFetch ELSE fetching
    /\ activation' = IF activation.pc \in {"keys", "claim"}
                     THEN [pc |-> "idle", pending |-> activation.pending]
                     ELSE activation
    /\ UNCHANGED <<caches, claimed, network>>
    /\ UNCHANGED <<recordVars, cacheVars, appVars>>

\* A new version of the form page is deployed on the origin.
Deploy(version) ==
    /\ network # version
    /\ network' = version
    /\ UNCHANGED <<caches, fetching, activation, claimed>>
    /\ UNCHANGED <<recordVars, cacheVars, appVars>>

\* No service worker: the pages of the other specifications.
WorkerOff ==
    /\ caches = [n \in CacheNames |-> NoCache]
    /\ fetching = IdleFetch
    /\ activation = IdleActivation
    /\ claimed = FALSE
    /\ network = "v1"

(***************************************************************************)
(* offline-app-worker.js: the message listener and checkFormHash           *)
(***************************************************************************)
\* The first index of a segment of the path that is followed by another one
\* ( '/seg/' in the URL ), 0 when there is none.
FirstSegment(path, seg) ==
    LET at == {i \in 1..(Len(path) - 1) : path[i] = seg} IN
    IF at = {} THEN 0 ELSE CHOOSE i \in at : \A j \in at : i <= j

\* url.replace( '/x/', '/transform/xform/hash/' )
HashUrl(url) ==
    LET i == FirstSegment(url.path, "x") IN
    IF i = 0 THEN url
    ELSE Url(SubSeq(url.path, 1, i - 1) \o <<"transform", "xform", "hash">>
               \o SubSeq(url.path, i + 1, Len(url.path)), url.query)

\* hashURL.replace( '/hash/', '/' )
TransformUrl(hashURL) ==
    LET i == FirstSegment(hashURL.path, "hash") IN
    IF i = 0 THEN hashURL
    ELSE Url(SubSeq(hashURL.path, 1, i - 1)
               \o SubSeq(hashURL.path, i + 1, Len(hashURL.path)), hashURL.query)

\* A value that is not a string, and a value that is no URL string.
NotAString == "undefined"
NoUrl == Url(<<>>, NotAString)

\* The data of the message events.
MessageData ==
    [type : {"CHECK_FORM_HASH"}, enketoId : {"a"}, url : {FormA, FormAQuery}]
      \cup {[type |-> "CHECK_FORM_HASH", enketoId |-> NotAString, url |-> FormA],
            [type |-> "CHECK_FORM_HASH", enketoId |-> "a", url |-> NoUrl],
            [type |-> "OTHER", enketoId |-> "a", url |-> FormA]}

MessageIds == {"m1", "m2"}
IdleMessage == [pc |-> "idle"]

\* response.json(): the body is JSON with a hash ( the hash itself ), JSON
\* without one ( "{}" ), or not JSON ( "<html>" ), for which json() rejects.
JsonOk(body) == body # "<html>"
JsonHash(body) == IF body = "{}" THEN NotAString ELSE body

\* What the hash request gives: a body with the origin's hash, a JSON body
\* without a hash, a body that is not JSON, or a rejection.
HashOutcomes == {"hash", "nohash", "html", "offline"}

HashResponse(outcome) ==
    CASE outcome = "hash" -> Ok(network)
      [] outcome = "nohash" -> [status |-> 500, type |-> "basic", body |-> "{}"]
      [] outcome = "html" -> [status |-> 404, type |-> "basic", body |-> "<html>"]
      [] outcome = "offline" -> NoResponse

\* A comparison that takes a missing hash for "nothing new".
IsStaleLoose(fetched, cached) == fetched # NotAString /\ fetched # cached

\* checkFormHash: isStale = cached == null || hash == null || hash !== cached
IsStale(fetched, cached) ==
    cached = NotAString \/ fetched = NotAString \/ fetched # cached

\* The message listener: checkFormHash( client, enketoId, url ) for a
\* CHECK_FORM_HASH message whose enketoId and url are strings.
Listens(data) ==
    /\ data.type = "CHECK_FORM_HASH"
    /\ data.enketoId # NotAString
    /\ data.url # NoUrl

MessageEvent(m, data) ==
    /\ messages[m].pc = "idle"
    /\ messages' = [messages EXCEPT ![m] =
          IF Listens(data)
          THEN [pc |-> "match", data |-> data, replies |-> <<>>]
          ELSE [pc |-> "ignored", data |-> data, replies |-> <<>>]]
    /\ UNCHANGED <<appCache, comm, serverVars>>
    /\ UNCHANGED <<recordVars, cacheVars, workerVars>>

\* checkFormHash: caches.match( transformURL )
CheckMatch(m) ==
    /\ messages[m].pc = "match"
    /\ messages' = [messages EXCEPT ![m] =
          [pc |-> "fetch", data |-> @.data, replies |-> <<>>,
           cached |-> Match(caches, TransformUrl(HashUrl(@.data.url)))]]
    /\ UNCHANGED <<appCache, comm, serverVars>>
    /\ UNCHANGED <<recordVars, cacheVars, workerVars>>

\* What checkFormHash posts to the client once fetch( hashURL ) has settled:
\* nothing when the cache has no copy, FORM_UPDATE_UNKNOWN when the fetch or
\* a json() rejects.
Posted(id, hashResponse, cachedResponse) ==
    IF hashResponse = NoResponse
    THEN <<[type |-> "FORM_UPDATE_UNKNOWN", enketoId |-> id]>>
    ELSE IF cachedResponse = NoResponse
    THEN <<>>
    ELSE IF ~JsonOk(hashResponse.body) \/ ~JsonOk(cachedResponse.body)
    THEN <<[type |-> "FORM_UPDATE_UNKNOWN", enketoId |-> id]>>
    ELSE <<[type |-> IF IsStale(JsonHash(hashResponse.body),
                                JsonHash(cachedResponse.body))
                     THEN "FORM_UPDATED" ELSE "FORM_UP_TO_DATE",
            enketoId |-> id]>>

\* checkFormHash: fetch( hashURL ) settles, and the rest of the function.
CheckFetched(m, outcome) ==
    /\ messages[m].pc = "fetch"
    /\ messages' = [messages EXCEPT ![m] =
          [pc |-> "done", data |-> @.data, cached |-> @.cached,
           fetched |-> HashResponse(outcome),
           replies |-> Posted(@.data.enketoId, HashResponse(outcome), @.cached)]]
    /\ UNCHANGED <<appCache, comm, serverVars>>
    /\ UNCHANGED <<recordVars, cacheVars, workerVars>>

MessagesOff == messages = [m \in MessageIds |-> IdleMessage]

(***************************************************************************)
(* application-cache.js: registration of the service worker by the page    *)
(***************************************************************************)
PageIds == {"a", "b"}

\* unmockable.location.href of the page of a form.
PageUrl(id) == Url(<<"x", id>>, "")

\* What serviceWorker.register rejects with.
RegistrationErrors == { [message |-> "e1", stack |-> "s1"],
                        [message |-> "e2", stack |-> "s2"] }
NoError == [message |-> "", stack |-> ""]

MaxPosts == 3
MaxSignals == 2

\* The module before init, or after the page has been loaded anew.
IdleAppCache ==
    [pc |-> "idle",
     enketoId |-> "",
     active |-> FALSE,
     reloadOnUpdate |-> FALSE,
     timers |-> {},
     listening |-> FALSE,
     posts |-> 0,
     lastPost |-> [type |-> "none", enketoId |-> "", url |-> NoUrl],
     lastMessage |-> [type |-> "none", enketoId |-> ""],
     updates |-> 0,
     reloads |-> 0,
     reports |-> <<>>,
     applicationUpdated |-> 0,
     formUpdated |-> 0,
     thrown |-> NoError]

\* init up to `await serviceWorker.register( workerURL )`, or, without
\* navigator.serviceWorker, _reportOfflineLaunchCapable( false ).
AppCacheInit(id, supported) ==
    /\ appCache.pc = "idle"
    /\ appCache' = [IdleAppCache EXCEPT
          !.pc = IF supported THEN "registering" ELSE "unsupported",
          !.enketoId = id,
          !.reports = IF supported THEN <<>> ELSE <<FALSE>>]
    /\ UNCHANGED <<messages, comm, serverVars>>
    /\ UNCHANGED <<recordVars, cacheVars, workerVars>>

\* checkFormHash( worker, enketoId ): the message posted to the worker.
CheckFormHashMessage(id) ==
    [type |-> "CHECK_FORM_HASH", enketoId |-> id, url |-> PageUrl(id)]

\* A page that reports itself capable whether or not a worker is active.
ReportsAlways(active) == <<TRUE>>

\* init, after registration: location.reload() without an active worker,
\* _reportOfflineLaunchCapable( true ) with one.
Reports(active) == IF active THEN <<TRUE>> ELSE <<>>

\* The registration promise resolves: the rest of init's try block.
Registered(active) ==
    /\ appCache.pc = "registering"
    /\ appCache' = [appCache EXCEPT
          !.pc = IF active THEN "ready" ELSE "reloading",
          !.active = active,
          !.reloadOnUpdate = TRUE,
          !.timers = {"reloadOnUpdate", "registration"}
                       \cup (IF active THEN {"form"} ELSE {}),
          !.listening = active,
          !.posts = IF active THEN 1 ELSE 0,
          !.lastPost = IF active THEN CheckFormHashMessage(appCache.enketoId) ELSE @,
          !.updates = 1,
          !.reloads = IF active THEN 0 ELSE 1,
          !.reports = Reports(active)]
    /\ UNCHANGED <<messages, comm, serverVars>>
    /\ UNCHANGED <<recordVars, cacheVars, workerVars>>

\* The error init throws when registration fails.
RegistrationError(error) ==
    [message |-> <<"Offline application service worker registration failed: ",
                   error.message>>,
     stack |-> error.stack]

\* The registration promise rejects: init's catch block.
RegistrationRejected(error) ==
    /\ appCache.pc = "registering"
    /\ appCache' = [appCache EXCEPT
          !.pc = "failed",
          !.reports = <<FALSE>>,
          !.thrown = RegistrationError(error)]
    /\ UNCHANGED <<messages, comm, serverVars>>
    /\ UNCHANGED <<recordVars, cacheVars, workerVars>>

\* setTimeout( ..., RELOAD_ON_UPDATE_TIMEOUT ) fires.
ReloadTimeout ==
    /\ "reloadOnUpdate" \in appCache.timers
    /\ appCache' = [appCache EXCEPT
          !.reloadOnUpdate = FALSE,
          !.timers = @ \ {"reloadOnUpdate"}]
    /\ UNCHANGED <<messages, comm, serverVars>>
    /\ UNCHANGED <<recordVars, cacheVars, workerVars>>

\* setInterval( ..., UPDATE_REGISTRATION_INTERVAL ) fires: registration.update()
RegistrationInterval ==
    /\ "registration" \in appCache.timers
    /\ appCache.updates < MaxSignals
    /\ appCache' = [appCache EXCEPT !.updates = @ + 1]
    /\ UNCHANGED <<messages, comm, serverVars>>
    /\ UNCHANGED <<recordVars, cacheVars, workerVars>>

\* setInterval( ..., UPDATE_FORM_INTERVAL ) fires: checkFormHash. The interval
\* stays armed.
FormInterval ==
    /\ "form" \in appCache.timers
    /\ appCache.posts < MaxPosts
    /\ appCache' = [appCache EXCEPT
          !.posts = @ + 1,
          !.lastPost = CheckFormHashMessage(appCache.enketoId)]
    /\ UNCHANGED <<messages, comm, serverVars>>
    /\ UNCHANGED <<recordVars, cacheVars, workerVars>>

\* A listener that reloads whenever the controller changes.
ReloadsAlways(state) == TRUE

\* The controllerchange listener: if ( reloadOnUpdate )
ReloadsOnChange(state) == state.reloadOnUpdate

\* serviceWorker's controllerchange event, with the listener added.
ControllerChange ==
    /\ appCache.pc \in {"ready", "reloading"}
    /\ appCache.listening
    /\ appCache.reloads < MaxSignals /\ appCache.applicationUpdated < MaxSignals
    /\ appCache' = IF ReloadsOnChange(appCache)
                   THEN [appCache EXCEPT !.reloads = @ + 1, !.pc = "reloading"]
                   ELSE [appCache EXCEPT !.applicationUpdated = @ + 1]
    /\ UNCHANGED <<messages, comm, serverVars>>
    /\ UNCHANGED <<recordVars, cacheVars, workerVars>>

\* A listener that takes every FORM_UPDATED for its own.
NotifiesAny(type, updatedEnketoId, id) == type = "FORM_UPDATED"

\* The message listener: type === 'FORM_UPDATED' && updatedEnketoId === enketoId
Notifies(type, updatedEnketoId, id) ==
    type = "FORM_UPDATED" /\ updatedEnketoId = id

WorkerMessageTypes == {"FORM_UPDATED", "FORM_UP_TO_DATE", "FORM_UPDATE_UNKNOWN"}

\* serviceWorker's message event, with the listener added.
WorkerMessage(type, updatedEnketoId) ==
    /\ appCache.pc \in {"ready", "reloading"}
    /\ appCache.listening
    /\ appCache.formUpdated < MaxSignals
    /\ appCache' = [appCache EXCEPT
          !.lastMessage = [type |-> type, enketoId |-> updatedEnketoId],
          !.formUpdated = IF Notifies(type, updatedEnketoId, appCache.enketoId)
                          THEN @ + 1 ELSE @]
    /\ UNCHANGED <<messages, comm, serverVars>>
    /\ UNCHANGED <<recordVars, cacheVars, workerVars>>

\* The reload that location.reload() asked for: a new page, its module state
\* as before init.
PageReloaded ==
    /\ appCache.pc = "reloading"
    /\ appCache' = IdleAppCache
    /\ UNCHANGED <<messages, comm, serverVars>>
    /\ UNCHANGED <<recordVars, cacheVars, workerVars>>

(***************************************************************************)
(* communicator.js: getXFormInfo, the request to the OpenRosa server and    *)
(* the search of the form list                                             *)
(***************************************************************************)
OpenRosaIds == {"a", "b"}

\* An <xform> of the form list as xml2js gives it: every child an array.
XForms == [formID : {<<"a">>, <<"b">>}, hash : {<<"h1">>, <<"h2">>}]

MaxForms == 3

\* The form lists the server answers with: what _xmlToJson makes of the body,
\* or a body that is not XML.
RECURSIVE Lists(_)
Lists(n) ==
    IF n = 0 THEN {<<>>}
    ELSE Lists(n - 1) \cup {Append(l, x) : l \in {k \in Lists(n - 1) : Len(k) = n - 1}, x \in XForms}

Bodies == [xml : {TRUE}, xforms : Lists(MaxForms)]
            \cup {[xml |-> FALSE, xforms |-> <<>>]}

\* The status codes of the responses.
StatusCodes == {199, 200, 201, 204, 299, 300, 302, 400, 401, 403, 404, 500}

\* What the request gives: a response, or an error of the transport.
Responses ==
    [error : {""}, statusCode : StatusCodes \ {200}, body : {[xml |-> FALSE, xforms |-> <<>>]}]
      \cup [error : {""}, statusCode : {200}, body : Bodies]
      \cup {[error |-> "ETIMEDOUT", statusCode |-> 0, body |-> [xml |-> FALSE, xforms |-> <<>>]]}

NoInfo == [formID |-> "", hash |-> ""]
Failure(status, message) == [ok |-> FALSE, status |-> status, message |-> message, info |-> NoInfo]
Success(info) == [ok |-> TRUE, status |-> 0, message |-> "", info |-> info]
Pending == [ok |-> FALSE, status |-> 0, message |-> "pending", info |-> NoInfo]

\* A request that takes only 4xx and 5xx for failures.
FailedStatusFrom400(statusCode) == statusCode >= 400

\* openRosaRequest: statusCode < 200 || statusCode >= 300
FailedStatus(statusCode) == statusCode < 200 \/ statusCode >= 300

\* openRosaRequest( url, options ): the error it throws, or success with the
\* body. An error of the transport has no status.
openRosaRequest(response) ==
    IF response.error # "" THEN Failure(0, response.error)
    ELSE IF response.statusCode = 401
    THEN Failure(401, "Forbidden. Authorization Required.")
    ELSE IF FailedStatus(response.statusCode)
    THEN Failure(response.statusCode, "Request failed.")
    ELSE Success(NoInfo)

\* _simplifyFormObj: formObj[ prop ] = formObj[ prop ][ 0 ].toString()
simplifyFormObj(formObj) == [formID |-> formObj.formID[1], hash |-> formObj.hash[1]]

\* xform.formID.toString() === survey.openRosaId
Matches(xform, openRosaId) == xform.formID[1] = openRosaId

\* _findFormAddInfo( formListXml, survey ): Array.prototype.some stops at the
\* first xform that matches, and `index` is that one's.
findFormAddInfo(body, openRosaId) ==
    IF ~body.xml THEN Failure(0, "xml")
    ELSE LET found == {i \in 1..Len(body.xforms) : Matches(body.xforms[i], openRosaId)} IN
         IF found = {}
         THEN Failure(404, "error.notfoundinformlist")
         ELSE LET index == CHOOSE i \in found : \A j \in found : i <= j IN
              Success(simplifyFormObj(body.xforms[index]))

IdleComm ==
    [pc |-> "idle", openRosaId |-> "",
     response |-> [error |-> "", statusCode |-> 0, body |-> [xml |-> FALSE, xforms |-> <<>>]],
     request |-> Pending, result |-> Pending]

\* getXFormInfo( survey ): throws without a server, otherwise sends the
\* request for the form list.
getXFormInfo(openRosaId, openRosaServer) ==
    /\ comm.pc = "idle"
    /\ comm' = IF openRosaServer
               THEN [IdleComm EXCEPT !.pc = "request", !.openRosaId = openRosaId]
               ELSE [IdleComm EXCEPT !.pc = "done", !.openRosaId = openRosaId,
                                     !.result = Failure(0, "No server provided.")]
    /\ UNCHANGED <<messages, appCache, serverVars>>
    /\ UNCHANGED <<recordVars, cacheVars, workerVars>>

\* The request settles: openRosaRequest throws or returns the body; what it
\* throws is what getXFormInfo rejects with.
RequestSettled(response) ==
    /\ comm.pc = "request"
    /\ LET outcome == openRosaRequest(response) IN
       comm' = [comm EXCEPT
          !.response = response,
          !.request = outcome,
          !.pc = IF outcome.ok THEN "find" ELSE "done",
          !.result = IF outcome.ok THEN @ ELSE outcome]
    /\ UNCHANGED <<messages, appCache, serverVars>>
    /\ UNCHANGED <<recordVars, cacheVars, workerVars>>

\* .then( ( formListXml ) => _findFormAddInfo( formListXml, survey ) )
FindFormAddInfo ==
    /\ comm.pc = "find"
    /\ comm' = [comm EXCEPT
          !.pc = "done",
          !.result = findFormAddInfo(comm.response.body, comm.openRosaId)]
    /\ UNCHANGED <<messages, appCache, serverVars>>
    /\ UNCHANGED <<recordVars, cacheVars, workerVars>>

\* The caller takes the result; the next call can start.
CommReturn ==
    /\ comm.pc = "done"
    /\ comm' = IdleComm
    /\ UNCHANGED <<messages, appCache, serverVars>>
    /\ UNCHANGED <<recordVars, cacheVars, workerVars>>


(***************************************************************************)
(* The communicator's request options (src/config/build.js 897-1045, the   *)
(* version built on the request library; the undici version at 190-335     *)
(* builds the same headers).  A header value is a sequence of tokens, so   *)
(* that the User-Agent is really concatenated and sanitized.               *)
(***************************************************************************)
TIMEOUT == "config.timeout"

Absent == <<>>

Space == " "

ServerUserAgent == "Enketo/version"

HeaderNames == {"cookie", "Date", "User-Agent", "X-OpenRosa-Version"}

NoHeaders == [name \in HeaderNames |-> Absent]

\* readings of new Date().toUTCString()
Clock == {"t1", "t2"}

\* the user-agent header of the request the server is handling
ClientAgents == {Absent, <<"agent">>, <<Space, "agent">>,
                 <<"agent", Space, Space, "x">>}

Cookies == {Absent, <<"cookie">>}

\* survey.credentials / user.getCredentials( req )
Credentials == {"none", "bearer", "basic"}

NoAuth == [kind |-> "none", sendImmediately |-> TRUE]

\* the requests of getXFormInfo, getXForm, getManifest, requestMedia (GET, and
\* HEAD for the print view), getMaxSize and authenticate, with their method
RequestKinds == {"formList", "definition", "manifest", "media", "mediaHead",
                 "maxSize", "authenticate"}

MethodOf(kind) ==
    CASE kind \in {"mediaHead", "maxSize", "authenticate"} -> "head"
      [] OTHER -> "none"

IdleWire == [pc |-> "idle", kind |-> "none", method |-> "none",
             headers |-> NoHeaders, timeout |-> "none", auth |-> NoAuth,
             agent |-> Absent, now |-> "none"]

RECURSIVE TrimStart(_)
TrimStart(value) ==
    IF value # <<>> /\ Head(value) = Space THEN TrimStart(Tail(value)) ELSE value

RECURSIVE TrimEnd(_)
TrimEnd(value) ==
    IF value # <<>> /\ value[Len(value)] = Space
    THEN TrimEnd(SubSeq(value, 1, Len(value) - 1))
    ELSE value

RECURSIVE Collapse(_)
Collapse(value) ==
    IF Len(value) < 2 THEN value
    ELSE IF value[1] = Space /\ value[2] = Space THEN Collapse(Tail(value))
    ELSE <<value[1]>> \o Collapse(Tail(value))

\* value.trim().replace(/\s+/g, ' '); the tokens of the model are printable
sanitizeHeader(value) == Collapse(TrimEnd(TrimStart(value)))

getUpdatedRequestHeaders(headers, clientUserAgent, now) ==
    LET userAgent == IF clientUserAgent = Absent
                     THEN <<ServerUserAgent>>
                     ELSE <<ServerUserAgent, Space>> \o clientUserAgent
    IN  [headers EXCEPT !["Date"] = <<now>>,
                        !["User-Agent"] = sanitizeHeader(userAgent),
                        !["X-OpenRosa-Version"] = <<"1.0">>]

getUpdatedRequestOptions(options, clientUserAgent, now) ==
    [options EXCEPT
        !.method = IF @ = "none" THEN "get" ELSE @,
        !.headers = getUpdatedRequestHeaders(@, clientUserAgent, now),
        !.timeout = TIMEOUT,
        !.auth = IF @.kind = "basic" THEN [@ EXCEPT !.sendImmediately = FALSE]
                 ELSE @]

\* _request( options ) and requestMedia: every caller passes its cookie only
OpenRosaRequest(kind, cookie, credentials, clientUserAgent, now) ==
    /\ wire.pc = "idle"
    /\ wire' = getUpdatedRequestOptions(
                   [pc |-> "sent", kind |-> kind, method |-> MethodOf(kind),
                    headers |-> [NoHeaders EXCEPT !["cookie"] = cookie],
                    timeout |-> "none",
                    auth |-> [NoAuth EXCEPT !.kind = credentials],
                    agent |-> clientUserAgent, now |-> now],
                   clientUserAgent, now)
    /\ UNCHANGED <<limiters, mediaHosts, mediaURLCache>>
    /\ UNCHANGED <<messages, appCache, comm>>
    /\ UNCHANGED <<recordVars, cacheVars, workerVars>>

\* getAuthHeader( url, credentials ): a bearer token needs no request, anything
\* else sends a HEAD request with the options written out in the function
GetAuthHeader(credentials, clientUserAgent, now) ==
    /\ wire.pc = "idle"
    /\ wire' = IF credentials = "bearer"
               THEN [IdleWire EXCEPT !.pc = "resolved", !.kind = "authHeader"]
               ELSE [pc |-> "sent", kind |-> "authHeader", method |-> "head",
                     headers |-> [NoHeaders EXCEPT
                                     !["X-OpenRosa-Version"] = <<"1.0">>,
                                     !["Date"] = <<now>>],
                     timeout |-> TIMEOUT, auth |-> NoAuth,
                     agent |-> clientUserAgent, now |-> now]
    /\ UNCHANGED <<limiters, mediaHosts, mediaURLCache>>
    /\ UNCHANGED <<messages, appCache, comm>>
    /\ UNCHANGED <<recordVars, cacheVars, workerVars>>

\* the exported getUpdatedRequestHeaders called with headers of the caller's
CallerHeaders ==
    {[NoHeaders EXCEPT !["Date"] = date, !["User-Agent"] = agent]
        : date \in {Absent, <<"caller">>}, agent \in {Absent, <<"caller">>}}

GetUpdatedRequestHeaders(headers, clientUserAgent, now) ==
    /\ wire.pc = "idle"
    /\ wire' = [IdleWire EXCEPT
                   !.pc = "headers", !.kind = "headers",
                   !.headers = getUpdatedRequestHeaders(headers, clientUserAgent, now),
                   !.agent = clientUserAgent, !.now = now]
    /\ UNCHANGED <<limiters, mediaHosts, mediaURLCache>>
    /\ UNCHANGED <<messages, appCache, comm>>
    /\ UNCHANGED <<recordVars, cacheVars, workerVars>>

\* the response, or the error, of the request arrives
WireSettled ==
    /\ wire.pc # "idle"
    /\ wire' = IdleWire
    /\ UNCHANGED <<limiters, mediaHosts, mediaURLCache>>
    /\ UNCHANGED <<messages, appCache, comm>>
    /\ UNCHANGED <<recordVars, cacheVars, workerVars>>

(***************************************************************************)
(* Media requests and their per-origin limiter (src/config/build.js        *)
(* 592-779).  pLimit( n ) is the p-limit package: limit( fn ) starts fn at *)
(* once while fewer than n are running and queues it otherwise; when a     *)
(* started fn settles, the oldest queued one starts.                       *)
(***************************************************************************)
MAX_CONCURRENT_MEDIA_REQUESTS == 8

\* the number of media files of the larger manifest
MaxMedia == 7

MediaOrigins == {"https://h", "https://g"}

MediaUrl(origin, path) == [origin |-> origin, path |-> path]

Manifests == {"m1", "m2"}

\* the media maps of two manifests; the print view asks for the second
MediaMap(m) ==
    IF m = "m1"
    THEN [i \in 1..MaxMedia |-> MediaUrl("https://h", i)]
    ELSE <<MediaUrl("https://h", MaxMedia + 1), MediaUrl("https://g", 1),
           MediaUrl("https://h", MaxMedia + 2)>>

isPrintView(m) == m = "m2"

MediaRequests == {[manifest |-> m, entry |-> i] : m \in Manifests, i \in 1..(MaxMedia + 3)}

Entries32(m) == {r \in MediaRequests : r.manifest = m /\ r.entry \in DOMAIN MediaMap(m)}

AllEntries == UNION {Entries32(m) : m \in Manifests}

UrlOf(r) == MediaMap(r.manifest)[r.entry]

\* const { origin } = new URL( urlStr ): the key of concurrencyLimiters
LimiterKey(urlStr) == MediaUrl(urlStr.origin, 0)

LimiterKeys == {LimiterKey(MediaUrl(o, 1)) : o \in MediaOrigins}

NoLimiter == [state |-> "none", waiting |-> <<>>, queue |-> <<>>]

IdleLimiters ==
    [map |-> [k \in LimiterKeys |-> NoLimiter],
     requests |-> [r \in AllEntries |-> "new"],
     manifests |-> [m \in Manifests |-> "idle"],
     handed |-> [o \in MediaOrigins |-> <<>>],
     started |-> [o \in MediaOrigins |-> <<>>]]

\* the entries of manifest m whose limiter has key k, in the order of the map
EntriesFor(m, k) ==
    LET all == [i \in DOMAIN MediaMap(m) |-> [manifest |-> m, entry |-> i]]
    IN  SelectSeq(all, LAMBDA r : LimiterKey(UrlOf(r)) = k)

\* getConcurrencyLimiter( urlStr ) for every entry of the map, in one turn:
\* the promise of a key is created by the first call and found by the others
getConcurrencyLimiter(map, m) ==
    [k \in LimiterKeys |->
        IF EntriesFor(m, k) = <<>> THEN map[k]
        ELSE [map[k] EXCEPT !.state = IF @ = "none" THEN "loading" ELSE @,
                            !.waiting = @ \o EntriesFor(m, k)]]

\* requestDataURLMediaMap( currentRequest, mediaMap ): entries.map( async ... )
\* runs each callback up to its first await
RequestDataURLMediaMap(m) ==
    /\ limiters.manifests[m] = "idle"
    /\ limiters' = [limiters EXCEPT
                       !.map = getConcurrencyLimiter(@, m),
                       !.requests = [r \in AllEntries |->
                                        IF r \in Entries32(m) THEN "awaiting" ELSE @[r]],
                       !.manifests[m] = "pending"]
    /\ UNCHANGED <<wire, mediaHosts, mediaURLCache>>
    /\ UNCHANGED <<messages, appCache, comm>>
    /\ UNCHANGED <<recordVars, cacheVars, workerVars>>

\* import( 'p-limit' ).then( ... pLimit( MAX_CONCURRENT_MEDIA_REQUESTS ) ) resolves
LimiterLoaded(k) ==
    /\ limiters.map[k].state = "loading"
    /\ limiters' = [limiters EXCEPT !.map[k].state = "ready"]
    /\ UNCHANGED <<wire, mediaHosts, mediaURLCache>>
    /\ UNCHANGED <<messages, appCache, comm>>
    /\ UNCHANGED <<recordVars, cacheVars, workerVars>>

\* the requests of limiter k that hold one of its slots
Running(requests, k) ==
    {r \in AllEntries : /\ LimiterKey(UrlOf(r)) = k
                        /\ requests[r] \in {"head", "get", "stuck"}}

\* pLimit( MAX_CONCURRENT_MEDIA_REQUESTS ): a call starts while fewer run
HasFreeSlotAlways(running) == TRUE

HasFreeSlot(running) == Cardinality(running) < MAX_CONCURRENT_MEDIA_REQUESTS

FirstCall(r) == IF isPrintView(r.manifest) THEN "head" ELSE "get"

\* requestMediaConcurrently after its await: limit( requestMedia, ... )
Limit(k) ==
    LET limiter == limiters.map[k]
        r == Head(limiter.waiting)
        free == HasFreeSlot(Running(limiters.requests, k))
        o == UrlOf(r).origin
    IN  /\ limiter.state = "ready"
        /\ limiter.waiting # <<>>
        /\ limiters' = [limiters EXCEPT
                           !.map[k].waiting = Tail(@),
                           !.map[k].queue = IF free THEN @ ELSE Append(@, r),
                           !.requests[r] = IF free THEN FirstCall(r) ELSE "queued",
                           !.handed[o] = Append(@, r),
                           !.started[o] = IF free THEN Append(@, r) ELSE @]
        /\ UNCHANGED <<wire, mediaHosts, mediaURLCache>>
        /\ UNCHANGED <<messages, appCache, comm>>
        /\ UNCHANGED <<recordVars, cacheVars, workerVars>>

\* what the callback of request[method]( options, callback ) is called with
Callbacks == {"error", "audio", "other", "no response"}

\* requestAsync: an error rejects, a response resolves, and without a response
\* object the callback returns an object and settles nothing
requestAsync(callback) ==
    CASE callback = "error" -> "rejected"
      [] callback = "no response" -> "stuck"
      [] OTHER -> "resolved"

\* requestMedia after the callback of its HEAD or GET request: the promise of
\* the request is settled (resolved or rejected), stuck, or sends its GET
AfterCallback(call, callback) ==
    CASE requestAsync(callback) = "stuck" -> "stuck"
      [] call = "head" /\ callback = "other" -> "get"
      [] OTHER -> "settled"

\* Promise.all of requestDataURLMediaMap: rejected with the first rejection,
\* resolved once every entry is
MapResult(requests, result, m, rejects) ==
    CASE result # "pending" -> result
      [] rejects -> "rejected"
      [] \A r \in Entries32(m) : requests[r] = "settled" -> "resolved"
      [] OTHER -> "pending"

\* the upstream calls back; a settled request frees its slot and the limiter
\* starts the oldest queued request
UpstreamCallback(r, callback) ==
    LET k == LimiterKey(UrlOf(r))
        o == UrlOf(r).origin
        after == AfterCallback(limiters.requests[r], callback)
        frees == after = "settled"
        queue == limiters.map[k].queue
        next == frees /\ queue # <<>>
        requests == [limiters.requests EXCEPT
                        ![r] = after,
                        ![IF next THEN Head(queue) ELSE r] =
                            IF next THEN FirstCall(Head(queue)) ELSE after]
    IN  /\ limiters.requests[r] \in {"head", "get"}
        /\ limiters' = [limiters EXCEPT
                           !.requests = requests,
                           !.map[k].queue = IF next THEN Tail(@) ELSE @,
                           !.started[o] = IF next THEN Append(@, Head(queue)) ELSE @,
                           !.manifests[r.manifest] =
                               MapResult(requests, @, r.manifest,
                                         requestAsync(callback) = "rejected")]
        /\ UNCHANGED <<wire, mediaHosts, mediaURLCache>>
        /\ UNCHANGED <<messages, appCache, comm>>
        /\ UNCHANGED <<recordVars, cacheVars, workerVars>>

(***************************************************************************)
(* Media hosts (src/app/lib/redis-stores.js 171-268).  A URL is kept as    *)
(* the parts the URL parser gives; the name of a host is its sequence of   *)
(* labels.  The media controller and the call of addMediaHost after a      *)
(* manifest was fetched are not part of the sources at hand.               *)
(***************************************************************************)
Processes == {"master", "w1", "w2"}

ClusterWorkers == Processes \ {"master"}

HostNames == {<<"h">>, <<"wrong", "h">>, <<"h", "wrong">>, <<"wrong">>, <<"m">>}

Ports == {"", "443", "5678"}

\* where the name of a configured host stands in a URL, besides its host
Elsewhere == {"", "userinfo", "path", "query", "fragment"}

Href(protocol, hostname, port, elsewhere) ==
    [protocol |-> protocol, hostname |-> hostname, port |-> port,
     elsewhere |-> elsewhere]

MediaHrefs == {Href(protocol, hostname, port, elsewhere) :
                  protocol \in {"http:", "https:"}, hostname \in HostNames,
                  port \in Ports, elsewhere \in Elsewhere}

\* a host as configured, sent to a worker or stored: a name and a port
HostText(hostname, port) == Href("", hostname, port, "")

EmptyHost == HostText(<<>>, "")

DefaultPort(protocol) ==
    CASE protocol = "https:" -> "443"
      [] protocol = "http:" -> "80"
      [] OTHER -> ""

\* new URL( input ).host: the port is left out when it is the scheme's default
UrlHost(input) ==
    HostText(input.hostname,
             IF input.port = DefaultPort(input.protocol) THEN "" ELSE input.port)

\* new URL( input ) of a text without http(s) scheme: "name:port" parses with
\* the name as its scheme and no host, a name alone is no URL and throws
NewURL(input) ==
    CASE input.protocol # "" -> [ok |-> TRUE, host |-> UrlHost(input)]
      [] input.port # "" -> [ok |-> TRUE, host |-> EmptyHost]
      [] OTHER -> [ok |-> FALSE, host |-> EmptyHost]

isSameHostName(requestProtocol, expected, actual) ==
    actual.hostname = expected.hostname

isSameHost(requestProtocol, expected, actual) ==
    LET expectedURL == [expected EXCEPT !.protocol = requestProtocol \o ":"]
    IN  UrlHost(actual) = UrlHost(expectedURL)

\* the text of a host: its labels and its port
HostTokens(host) == host.hostname \o (IF host.port = "" THEN <<>> ELSE <<host.port>>)

\* new RegExp( expected ).test( actualHost ) for a pattern that is a text,
\* anchored at the start or not
PatternTest(pattern, tokens) ==
    \E i \in 1..(Len(tokens) + 1) :
        /\ pattern.anchored => i = 1
        /\ i + Len(pattern.tokens) - 1 <= Len(tokens)
        /\ SubSeq(tokens, i, i + Len(pattern.tokens) - 1) = pattern.tokens

Pattern(anchored, tokens) == [anchored |-> anchored, tokens |-> tokens]

hostMatches(config, requestProtocol, expected, actual, asPattern) ==
    LET ensureSSL == ~config.allowInsecure \/ requestProtocol = "https"
    IN  CASE ensureSSL /\ actual.protocol # "https:" -> FALSE
          [] asPattern -> PatternTest(config.serverURL, HostTokens(UrlHost(actual)))
          [] OTHER -> isSameHost(requestProtocol, expected, actual)

isMediaURL(config, learned, requestProtocol, url) ==
    LET allHosts == config.mediaHosts \cup learned
    IN  IF allHosts # {}
        THEN \E origin \in allHosts :
                hostMatches(config, requestProtocol, origin, url, FALSE)
        ELSE hostMatches(config, requestProtocol, EmptyHost, url, TRUE)

\* the settings of 'linked form and data server'
Configs ==
    [mediaHosts : {{}, {HostText(<<"h">>, "")}, {HostText(<<"h">>, "5678")},
                   {HostText(<<"h">>, "443")}},
     serverURL : {Pattern(FALSE, <<>>), Pattern(FALSE, <<"h">>), Pattern(TRUE, <<"wrong">>)},
     allowInsecure : BOOLEAN,
     configured : {TRUE}]

NoConfig == [mediaHosts |-> {}, serverURL |-> Pattern(FALSE, <<>>),
             allowInsecure |-> FALSE, configured |-> FALSE]

NoGet == [process |-> "none", protocol |-> "none", url |-> EmptyHost,
          hosts |-> {}, accepted |-> FALSE, attempted |-> FALSE]

IdleMediaHosts ==
    [config |-> NoConfig,
     learned |-> [p \in Processes |-> {}],
     inbox |-> [w \in ClusterWorkers |-> <<>>],
     since |-> [p \in Processes |-> {}],
     get |-> NoGet]

\* the server starts with its configuration
Configure(config) ==
    /\ ~mediaHosts.config.configured
    /\ mediaHosts' = [mediaHosts EXCEPT !.config = config]
    /\ UNCHANGED <<wire, limiters, mediaURLCache>>
    /\ UNCHANGED <<messages, appCache, comm>>
    /\ UNCHANGED <<recordVars, cacheVars, workerVars>>

\* cluster.workers is set in the master only
SendsToWorkers(p) == p = "master"

\* addMediaHost( downloadUrl ) in process p
addMediaHost(state, p, downloadUrl) ==
    LET parsed == NewURL(downloadUrl)
    IN  IF ~parsed.ok THEN state
        ELSE [state EXCEPT
                 !.learned[p] = @ \cup {parsed.host},
                 !.inbox = [w \in ClusterWorkers |->
                               IF SendsToWorkers(p) THEN Append(@[w], parsed.host)
                               ELSE @[w]]]

\* a manifest with this downloadUrl has been fetched by process p
GetManifestHosts(p, downloadUrl) ==
    /\ mediaHosts.config.configured
    /\ \A w \in ClusterWorkers : mediaHosts.inbox[w] = <<>>
    /\ mediaHosts' = [addMediaHost(mediaHosts, p, downloadUrl) EXCEPT
                         !.since = [q \in Processes |-> @[q] \cup {UrlHost(downloadUrl)}]]
    /\ UNCHANGED <<wire, limiters, mediaURLCache>>
    /\ UNCHANGED <<messages, appCache, comm>>
    /\ UNCHANGED <<recordVars, cacheVars, workerVars>>

\* cluster.worker.on( 'message', ... ): addMediaHost( message.data )
AddMediaHostMessage(w) ==
    /\ mediaHosts.inbox[w] # <<>>
    /\ mediaHosts' = [addMediaHost(mediaHosts, w, Head(mediaHosts.inbox[w])) EXCEPT
                         !.inbox[w] = Tail(@)]
    /\ UNCHANGED <<wire, limiters, mediaURLCache>>
    /\ UNCHANGED <<messages, appCache, comm>>
    /\ UNCHANGED <<recordVars, cacheVars, workerVars>>

resetMediaHosts(p) ==
    /\ mediaHosts.config.configured
    /\ mediaHosts' = [mediaHosts EXCEPT !.learned[p] = {}, !.since[p] = {}]
    /\ UNCHANGED <<wire, limiters, mediaURLCache>>
    /\ UNCHANGED <<messages, appCache, comm>>
    /\ UNCHANGED <<recordVars, cacheVars, workerVars>>

\* GET /media/get/<url> handled by process p: the upstream is asked for an
\* accepted URL only, anything else is answered with 404
MediaGet(p, requestProtocol, url) ==
    LET accepted == isMediaURL(mediaHosts.config, mediaHosts.learned[p],
                               requestProtocol, url)
    IN  /\ mediaHosts.config.configured
        /\ mediaHosts.get = NoGet
        /\ mediaHosts' = [mediaHosts EXCEPT
                             !.get = [process |-> p, protocol |-> requestProtocol,
                                      url |-> url,
                                      hosts |-> mediaHosts.config.mediaHosts
                                                   \cup mediaHosts.learned[p],
                                      accepted |-> accepted,
                                      attempted |-> accepted]]
        /\ UNCHANGED <<wire, limiters, mediaURLCache>>
        /\ UNCHANGED <<messages, appCache, comm>>
        /\ UNCHANGED <<recordVars, cacheVars, workerVars>>

\* the response of the media controller has been sent
MediaGetDone ==
    /\ mediaHosts.get # NoGet
    /\ mediaHosts' = [mediaHosts EXCEPT !.get = NoGet]
    /\ UNCHANGED <<wire, limiters, mediaURLCache>>
    /\ UNCHANGED <<messages, appCache, comm>>
    /\ UNCHANGED <<recordVars, cacheVars, workerVars>>

(***************************************************************************)
(* The page's media-URL cache (src/public/js/src/module/url.js 20-120).    *)
(* A missing entry of a Map or of an object is the empty text.             *)
(***************************************************************************)
\* the blob URLs URL.createObjectURL can hand out
MaxBlobs == 4

BlobURLs == [i \in 1..MaxBlobs |-> <<"blob:", i>>]

FileNames == <<"a.png", "b.png">>

DataURLs == {<<"data:", 1>>, <<"data:", 2>>}

PlainURLs == {<<"https://media/", 1>>}

\* a file name is kept like a URL: its kind and its text
FileName(i) == <<"file:", FileNames[i]>>

Missing == <<"", "">>

CacheKeys == {FileName(i) : i \in DOMAIN FileNames} \cup DataURLs

\* a media map: file name -> URL, in the order of FileNames
MediaMaps == [DOMAIN FileNames -> DataURLs \cup PlainURLs \cup {Missing}]

\* survey.media and survey.instanceAttachments
MediaSurveys ==
    {[media |-> media, instanceAttachments |-> attachments] :
        media \in MediaMaps,
        attachments \in {a \in MediaMaps : a[2] = Missing}}

NoMediaSurvey == [media |-> [i \in DOMAIN FileNames |-> Missing],
                  instanceAttachments |-> [i \in DOMAIN FileNames |-> Missing]]

startsWith(url, prefix) == url[1] = prefix

NoResult == [asked |-> Missing, value |-> Missing]

IdleMediaURLCache ==
    [cache |-> [key \in CacheKeys |-> Missing],
     created |-> 0,
     revoked |-> {},
     survey |-> NoMediaSurvey,
     before |-> 0,
     result |-> NoResult]

\* resetMediaURLCache: the values are revoked, without the entries being cleared
resetWithoutClear(state) ==
    [state EXCEPT
        !.revoked = @ \cup ({state.cache[key] : key \in CacheKeys} \ {Missing})]

\* resetMediaURLCache: every value of the cache is revoked, and the cache is new
resetMediaURLCache(state) ==
    [state EXCEPT
        !.revoked = @ \cup ({state.cache[key] : key \in CacheKeys} \ {Missing}),
        !.cache = [key \in CacheKeys |-> Missing]]

\* dataURLToBlobURL( mediaMapKey, dataURL ): the state after, and the blob URL
dataURLToBlobURL(state, mediaMapKey, dataURL) ==
    LET cached == state.cache[dataURL]
        blobURL == BlobURLs[state.created + 1]
    IN  IF cached # Missing
        THEN [state |-> state, url |-> cached]
        ELSE [state |-> [state EXCEPT !.created = @ + 1,
                                      !.cache = [key \in CacheKeys |->
                                                    IF key \in {mediaMapKey, dataURL}
                                                    THEN blobURL ELSE @[key]]],
              url |-> blobURL]

\* { ...media, ...instanceAttachments }
Spread(media, attachments) ==
    [i \in DOMAIN FileNames |-> IF attachments[i] # Missing THEN attachments[i] ELSE media[i]]

\* cacheMediaMap( mediaMap ), from entry i on
RECURSIVE cacheMediaMap(_, _, _)
cacheMediaMap(state, mediaMap, i) ==
    IF i > Len(FileNames) THEN state
    ELSE IF mediaMap[i] = Missing THEN cacheMediaMap(state, mediaMap, i + 1)
    ELSE IF ~startsWith(mediaMap[i], "data:")
    THEN cacheMediaMap([state EXCEPT !.cache[FileName(i)] = mediaMap[i]], mediaMap, i + 1)
    ELSE cacheMediaMap(dataURLToBlobURL(state, FileName(i), mediaMap[i]).state,
                       mediaMap, i + 1)

\* the blob URLs a survey may need
BlobsLeft(state) == state.created + Len(FileNames) <= MaxBlobs

setMediaURLCache(survey) ==
    /\ BlobsLeft(mediaURLCache)
    /\ mediaURLCache' =
          [cacheMediaMap(resetMediaURLCache(mediaURLCache),
                         Spread(survey.media, survey.instanceAttachments), 1)
              EXCEPT !.survey = survey,
                     !.before = mediaURLCache.created,
                     !.result = NoResult]
    /\ UNCHANGED <<wire, limiters, mediaHosts>>
    /\ UNCHANGED <<messages, appCache, comm>>
    /\ UNCHANGED <<recordVars, cacheVars, workerVars>>

\* what getMediaURL is asked for: a file name, a jr: URL ending in a file
\* name, a data: URL or a blob: URL
JrURL(i) == <<"jr:", FileNames[i]>>

Asked == {FileName(i) : i \in DOMAIN FileNames} \cup {JrURL(i) : i \in DOMAIN FileNames}
            \cup DataURLs \cup {BlobURLs[1]}

\* url.replace( /^jr:.*\/([^/]+)$/, '$1' )
fileNameOf(url) == IF startsWith(url, "jr:") THEN <<"file:", url[2]>> ELSE url

Get(cache, key) == IF key \in CacheKeys THEN cache[key] ELSE Missing

getMediaURL(url) ==
    LET state == mediaURLCache
        result == Get(state.cache, url)
        made == dataURLToBlobURL(state, url, url)
    IN  /\ state.created < MaxBlobs
        /\ mediaURLCache' =
              CASE startsWith(url, "blob:") ->
                     [state EXCEPT !.result = [asked |-> url, value |-> url]]
                [] result # Missing ->
                     [state EXCEPT !.result = [asked |-> url, value |-> result]]
                [] startsWith(url, "data:") ->
                     [made.state EXCEPT !.result = [asked |-> url, value |-> made.url]]
                [] OTHER ->
                     [state EXCEPT !.result = [asked |-> url,
                                               value |-> Get(state.cache, fileNameOf(url))]]
        /\ UNCHANGED <<wire, limiters, mediaHosts>>
        /\ UNCHANGED <<messages, appCache, comm>>
        /\ UNCHANGED <<recordVars, cacheVars, workerVars>>

\* Nothing of the server's modules is running.
ServerOff ==
    /\ wire = IdleWire
    /\ limiters = IdleLimiters
    /\ mediaHosts = IdleMediaHosts
    /\ mediaURLCache = IdleMediaURLCache

\* None of the application cache, the worker's messages and the communicator.
AppOff ==
    /\ MessagesOff
    /\ appCache = IdleAppCache
    /\ comm = IdleComm
    /\ ServerOff

(***************************************************************************)
(* Specifications                                                          *)
(***************************************************************************)
OneContent == { [xml |-> "x1", files |-> <<>>] }

NoLog == [initCalls |-> 0, initDone |-> 0, inited |-> {}, formParts |-> 0,
          upToDate |-> FALSE, changed |-> FALSE, evicted |-> FALSE,
          formUpdated |-> 0, removed |-> FALSE, swallowed |-> FALSE,
          overlap |-> FALSE]

\* The history at the start of the form cache: the requests are counted, the
\* events are not.
RequestLog == [NoLog EXCEPT !.formUpdated = MaxEvents, !.swallowed = TRUE]

\* The history of the form cache is not observed: every counter is at its end.
FullLog == [initCalls |-> MaxInits, initDone |-> MaxInits, inited |-> Surveys,
            formParts |-> MaxFetches, upToDate |-> TRUE, changed |-> TRUE,
            evicted |-> TRUE, formUpdated |-> MaxEvents, removed |-> FALSE,
            swallowed |-> TRUE, overlap |-> TRUE]

\* A record queued earlier by a page of survey `id`.
QueuedRecord(id) ==
    [instanceId |-> "r0", enketoId |-> id, name |-> "name", xml |-> "x1",
     files |-> <<>>, draft |-> FALSE, encrypted |-> (id = "B")]

\* Both surveys are cached, "A" without and "B" with encryption.
CachedSurveys == [id \in Surveys |-> FormParts(id, IF id = "A" THEN "h1" ELSE "h2")]

\* The page of one survey after formCache.init: the timers of the open survey
\* run and the store holds nothing of this survey yet.
InitPage ==
    /\ enketoId \in Surveys
    /\ saveCall = IdleCall
    /\ directCall = IdleCall
    /\ upload = IdleUpload
    /\ surveys = CachedSurveys
    /\ hash = surveys[enketoId].hash
    /\ check = [c \in {"c1"} |-> IdleCheck]
    /\ init = [k \in {"i1"} |-> IdleInit]
    /\ timers = [id \in Surveys |-> id = enketoId]
    /\ acked = {}
    /\ created = {}
    /\ runLog = <<>>
    /\ runList = <<>>
    /\ cacheLog = FullLog

CheckSteps(c) ==
    \/ \E id \in Surveys : CheckStart(c, id)
    \/ \E outcome \in Outcomes : CheckHash(c, outcome)
    \/ \E outcome \in Outcomes : CheckParts(c, outcome)
    \/ CheckRemoveLastSaved(c)
    \/ \E writeOk \in BOOLEAN : CheckUpdate(c, writeOk)
    \/ CheckRemoveLastSaved2(c)
    \/ CheckEvict(c)

InitSteps(k, id) ==
    \/ InitGet(k, id)
    \/ \E outcome \in Outcomes : InitParts(k, outcome)
    \/ \E writeOk \in BOOLEAN : InitStore(k, writeOk)
    \/ InitIntervals(k)

\* The record queue of one page: saves, autosave, uploads, crashes; the store
\* may hold a record queued by a page of the other survey.
InitQueue ==
    /\ InitPage
    /\ WorkerOff
    /\ AppOff
    /\ records \in {<<>>} \cup {<<QueuedRecord(id)>> : id \in Surveys \ {enketoId}}
    /\ server = [id \in Surveys |-> surveys[id].hash]

NextQueue ==
    \/ \E i \in RecordIds, c \in OneContent, d \in BOOLEAN : SaveSet(i, c, d)
    \/ \E i \in RecordIds, c \in OneContent, d \in BOOLEAN : SaveUpdate(i, c, d)
    \/ SaveLastSavedRemove
    \/ \E writeOk \in BOOLEAN : SaveLastSavedSet(writeOk)
    \/ \E c \in Contents : UpdateAutoSavedRecord(c)
    \/ UploadStart
    \/ \E ok \in BOOLEAN : UploadSubmit(ok)
    \/ UploadRemove
    \/ Reload(enketoId)

SpecQueue == InitQueue /\ [][NextQueue]_vars

\* The record queue with the freshness checks of the open survey, whose form
\* the server may have changed.
InitDurable ==
    /\ InitPage
    /\ WorkerOff
    /\ AppOff
    /\ records = <<>>
    /\ server \in {f \in [Surveys -> Hashes] :
                     \A id \in Surveys \ {enketoId} : f[id] = surveys[id].hash}

NextDurable ==
    \/ \E i \in {"r1", "r2"}, c \in OneContent, d \in BOOLEAN : SaveSet(i, c, d)
    \/ \E i \in {"r1", "r2"}, c \in OneContent, d \in BOOLEAN : SaveUpdate(i, c, d)
    \/ SaveLastSavedRemove
    \/ \E writeOk \in BOOLEAN : SaveLastSavedSet(writeOk)
    \/ \E c \in OneContent : UpdateAutoSavedRecord(c)
    \/ UploadStart
    \/ \E ok \in BOOLEAN : UploadSubmit(ok)
    \/ UploadRemove
    \/ CheckSteps("c1")
    \/ InitSteps("i1", enketoId)
    \/ Reload(enketoId)

SpecDurable == InitDurable /\ [][NextDurable]_vars

\* The last-saved snapshot: pages of both surveys, one after the other, saves
\* with either content, and setLastSavedRecord called by itself.
InitLastSaved ==
    /\ InitPage
    /\ WorkerOff
    /\ AppOff
    /\ records = <<>>
    /\ server = [id \in Surveys |-> surveys[id].hash]

NextLastSaved ==
    \/ \E i \in {"r1", "r2"}, c \in Contents, d \in BOOLEAN : SaveSet(i, c, d)
    \/ \E i \in {"r1", "r2"}, c \in Contents, d \in BOOLEAN : SaveUpdate(i, c, d)
    \/ SaveLastSavedRemove
    \/ \E writeOk \in BOOLEAN : SaveLastSavedSet(writeOk)
    \/ \E c \in Contents, e \in BOOLEAN : SetLastSavedRecord("r1", c, e)
    \/ DirectLastSavedRemove
    \/ \E writeOk \in BOOLEAN : DirectLastSavedSet(writeOk)
    \/ \E id \in Surveys : Reload(id)

SpecLastSaved == InitLastSaved /\ [][NextLastSaved]_vars

\* The form cache of the page of survey "A", from an empty survey store: calls of init that
\* may overlap, the freshness checks of the timers, two of which may be in
\* flight, a form that changes on the server, removal, and reloads.
InitCache ==
    /\ enketoId = "A"
    /\ records = <<>>
    /\ saveCall = IdleCall
    /\ directCall = IdleCall
    /\ upload = IdleUpload
    /\ surveys = [id \in Surveys |-> Undefined]
    /\ hash = "undefined"
    /\ server = [id \in Surveys |-> CachedSurveys[id].hash]
    /\ check = [c \in {"c1", "c2"} |-> IdleCheck]
    /\ init = [k \in {"i1", "i2"} |-> IdleInit]
    /\ timers = [id \in Surveys |-> FALSE]
    /\ acked = {}
    /\ created = {}
    /\ runLog = <<>>
    /\ runList = <<>>
    /\ cacheLog = RequestLog
    /\ WorkerOff
    /\ AppOff

NextCache ==
    \/ \E k \in {"i1", "i2"} : InitSteps(k, enketoId)
    \/ \E c \in {"c1", "c2"} : CheckSteps(c)
    \/ \E version \in Hashes : ServerUpdate(enketoId, version)
    \/ Remove(enketoId)
    \/ Flush
    \/ Reload(enketoId)

SpecCache == InitCache /\ [][NextCache]_vars

\* The records a page of survey "A" has stored: a draft, a queued record, the
\* autosave record and the last-saved record.
StoredRecords ==
    LET record(instanceId, name, draft) ==
            [instanceId |-> instanceId, enketoId |-> "A", name |-> name,
             xml |-> "x1", files |-> <<>>, draft |-> draft, encrypted |-> FALSE] IN
    << record("r1", "name", TRUE), record("r2", "name", FALSE),
       record(getAutoSavedKey("A"), "__autoSave_", TRUE),
       record(getLastSavedInstanceId("A"), "__lastSaved_", FALSE) >>

\* The history at the start of the freshness checks: the requests are not
\* counted, the events and the removals are.
CheckLog == [FullLog EXCEPT !.formUpdated = 0, !.evicted = FALSE,
                           !.upToDate = FALSE, !.swallowed = FALSE]

\* The freshness checks of the page of survey "A", cached with records
\* stored: the timers, two checks that may be in flight, a form that changes
\* on the server, removal, flush, init and reloads.
InitCheck ==
    /\ enketoId = "A"
    /\ records = StoredRecords
    /\ saveCall = IdleCall
    /\ directCall = IdleCall
    /\ upload = IdleUpload
    /\ surveys = CachedSurveys
    /\ hash = surveys[enketoId].hash
    /\ server \in {f \in [Surveys -> Hashes] : f["B"] = surveys["B"].hash}
    /\ check = [c \in {"c1", "c2"} |-> IdleCheck]
    /\ init = [k \in {"i1"} |-> IdleInit]
    /\ timers = [id \in Surveys |-> id = enketoId]
    /\ acked = {}
    /\ created = {"r1", "r2"}
    /\ runLog = <<>>
    /\ runList = <<>>
    /\ cacheLog = CheckLog
    /\ WorkerOff
    /\ AppOff

NextCheck ==
    \/ \E c \in {"c1", "c2"} : CheckSteps(c)
    \/ InitSteps("i1", enketoId)
    \/ \E version \in Hashes : ServerUpdate(enketoId, version)
    \/ Remove(enketoId)
    \/ Flush
    \/ Reload(enketoId)

SpecCheck == InitCheck /\ [][NextCheck]_vars

\* The service worker: fetch events one after another, the activation of a
\* new version meanwhile, deployments on the origin, and stops of the worker.
\* CacheStorage starts empty or with the partitions of an earlier version.
InitWorker ==
    /\ InitPage
    /\ enketoId = "A"
    /\ records = <<>>
    /\ server = [id \in Surveys |-> surveys[id].hash]
    /\ caches \in {[n \in CacheNames |-> NoCache],
                   [n \in CacheNames |-> IF n = FORMS_CACHE THEN NoCache ELSE EmptyCache]}
    /\ fetching = IdleFetch
    /\ activation = IdleActivation
    /\ claimed = FALSE
    /\ network = "v1"
    /\ AppOff

NextWorker ==
    \/ \E request \in Requests : FetchEvent(request)
    \/ OnFetchMatch
    \/ \E outcome \in FetchOutcomes : OnFetchNetwork(outcome)
    \/ \E writeOk \in BOOLEAN : OnFetchSentinel(writeOk)
    \/ \E writeOk \in BOOLEAN : OnFetchPut(writeOk)
    \/ ActivateEvent
    \/ RemoveStaleCaches
    \/ \E name \in CacheNames : CacheDelete(name)
    \/ ClientsClaim
    \/ WorkerStop
    \/ \E version \in Versions : Deploy(version)

SpecWorker == InitWorker /\ [][NextWorker]_vars

\* The worker's messages: the page's form definition is requested and cached
\* through fetch events, the origin deploys new versions, and clients send
\* messages, two of them in flight at most.
InitMessage ==
    /\ InitPage
    /\ enketoId = "A"
    /\ records = <<>>
    /\ server = [id \in Surveys |-> surveys[id].hash]
    /\ caches = [n \in CacheNames |-> NoCache]
    /\ fetching = IdleFetch
    /\ activation = IdleActivation
    /\ claimed = FALSE
    /\ network = "v1"
    /\ AppOff

NextMessage ==
    \/ FetchEvent(Req(TransformA, "GET", TRUE, "other"))
    \/ OnFetchMatch
    \/ \E outcome \in FetchOutcomes : OnFetchNetwork(outcome)
    \/ \E writeOk \in BOOLEAN : OnFetchPut(writeOk)
    \/ \E version \in Versions : Deploy(version)
    \/ \E m \in MessageIds, data \in MessageData : MessageEvent(m, data)
    \/ \E m \in MessageIds : CheckMatch(m)
    \/ \E m \in MessageIds, outcome \in HashOutcomes : CheckFetched(m, outcome)

SpecMessage == InitMessage /\ [][NextMessage]_vars

\* The page's application cache: init, the timers it starts, the events of
\* the service worker container, and the reloads it asks for.
InitAppCache ==
    /\ InitPage
    /\ enketoId = "A"
    /\ records = <<>>
    /\ server = [id \in Surveys |-> surveys[id].hash]
    /\ WorkerOff
    /\ AppOff

NextAppCache ==
    \/ \E id \in PageIds, supported \in BOOLEAN : AppCacheInit(id, supported)
    \/ \E active \in BOOLEAN : Registered(active)
    \/ \E error \in RegistrationErrors : RegistrationRejected(error)
    \/ ReloadTimeout
    \/ RegistrationInterval
    \/ FormInterval
    \/ ControllerChange
    \/ \E type \in WorkerMessageTypes, id \in PageIds : WorkerMessage(type, id)
    \/ PageReloaded

SpecAppCache == InitAppCache /\ [][NextAppCache]_vars

\* The communicator: calls of getXFormInfo, one after another, for every
\* response of the server.
InitComm ==
    /\ InitPage
    /\ enketoId = "A"
    /\ records = <<>>
    /\ server = [id \in Surveys |-> surveys[id].hash]
    /\ WorkerOff
    /\ AppOff

NextComm ==
    \/ \E id \in OpenRosaIds, openRosaServer \in BOOLEAN : getXFormInfo(id, openRosaServer)
    \/ \E response \in Responses : RequestSettled(response)
    \/ FindFormAddInfo
    \/ CommReturn

SpecComm == InitComm /\ [][NextComm]_vars

(***************************************************************************)
(* Properties of the record queue                                          *)
(***************************************************************************)
Stored(instanceId) == HasRecord(records, instanceId)

RunComplete == upload.pc = "idle" /\ runList # <<>>

\* The place of an instance id in the order the ids were handed out.
Place(instanceId) ==
    IF instanceId = "r0" THEN 0
    ELSE CHOOSE i \in 1..Len(NewIds) : NewIds[i] = instanceId

InOrder(ids) ==
    \A i, j \in 1..Len(ids) : i < j => Place(ids[i]) < Place(ids[j])

\* C1: uploadQueue() is continue-on-error. When a run is over, every record it
\* listed was submitted in that run, in the order listed, also the records
\* after one whose submission failed; every record whose submission was
\* confirmed is gone from the store and every record whose submission failed is
\* still stored; and a run only ever has records to submit that are stored.
C1_ContinueOnError ==
    /\ RunComplete =>
          /\ Len(runLog) = Len(runList)
          /\ \A i \in 1..Len(runLog) :
                /\ runLog[i].id = runList[i]
                /\ runLog[i].ok => ~Stored(runLog[i].id)
                /\ ~runLog[i].ok => Stored(runLog[i].id)
    /\ \A i \in 1..Len(upload.queue) : Stored(upload.queue[i])

\* A run over three queued records in which the second submission failed.
C1_Witness ==
    /\ RunComplete
    /\ runLog = <<[id |-> "r1", ok |-> TRUE], [id |-> "r2", ok |-> FALSE],
                  [id |-> "r3", ok |-> TRUE]>>
    /\ Stored("r2") /\ ~Stored("r1") /\ ~Stored("r3")

\* C2: no user data is lost. Every record handed to save is still stored or its
\* submission was acknowledged by the server, and uploadQueue removes a record
\* only after the acknowledgment.
C2_NoDataLoss ==
    /\ \A instanceId \in created : Stored(instanceId) \/ instanceId \in acked
    /\ upload.pc = "remove" => Head(upload.queue) \in acked

\* After a crash between acknowledgment and removal: one record acknowledged
\* and removed, another acknowledged and still stored, no upload running.
C2_Witness ==
    /\ upload.pc = "idle"
    /\ \E i, j \in created :
          /\ i \in acked /\ ~Stored(i)
          /\ j \in acked /\ Stored(j)

UserIds == RecordIds \cup {"r0"}

Named(store, id, name) ==
    {i \in 1..Len(store) : store[i].name = name /\ store[i].enketoId = id}

\* records.save completes with success: its last step wrote the snapshot.
SaveSucceeds == saveCall.pc = "set" /\ saveCall'.pc = "idle" /\ records' # records

\* C4: after a successful non-draft save for a survey without encryption the
\* record under getLastSavedInstanceId(surveyId) holds the xml, the files and
\* the survey id of the record just saved, and it is the only last-saved
\* record of the survey; at no time does a survey have two.
C4_LastSavedHoldsSave ==
    /\ [](\A id \in Surveys :
            /\ Cardinality(Named(records, id, "__lastSaved_")) <= 1
            /\ \A i \in Named(records, id, "__lastSaved_") :
                  records[i].instanceId = getLastSavedInstanceId(id))
    /\ [][SaveSucceeds =>
            LET id == saveCall.record.enketoId
                lastSaved == getLastSavedRecord(records', id) IN
            /\ lastSaved # Undefined
            /\ lastSaved.xml = saveCall.record.xml
            /\ lastSaved.files = saveCall.record.files
            /\ lastSaved.enketoId = id
            /\ Cardinality(Named(records', id, "__lastSaved_")) = 1]_vars

\* Two final records saved with different content, the snapshot holding the
\* content and the attachment of the later one.
C4_Witness ==
    /\ saveCall.pc = "idle" /\ directCall.pc = "idle"
    /\ enketoId = "A"
    /\ Len(records) = 3
    /\ records[1].instanceId = "r1" /\ records[1].xml = "x1" /\ ~records[1].draft
    /\ records[2].instanceId = "r2" /\ records[2].xml = "x2" /\ ~records[2].draft
    /\ records[3] = [records[2] EXCEPT !.name = "__lastSaved_",
                                       !.instanceId = getLastSavedInstanceId("A")]

\* C5: no last-saved record exists for an encryption-enabled survey, and none
\* is made of an encrypted record.
C5_NoneWhenEncrypted ==
    \A id \in Surveys :
        LET lastSaved == getLastSavedRecord(records, id) IN
        lastSaved # Undefined => ~lastSaved.encrypted /\ ~SurveyEncrypted(id)

Calls == {saveCall, directCall}

\* C6: the overwrite of the snapshot is atomic. While a call replaces a
\* snapshot that was stored, the survey is never without one (so a reader never
\* misses it and a failed write leaves the previous one), and concurrent calls
\* leave one record.
C6_AtomicOverwrite ==
    /\ \A call \in Calls :
          (call.pc = "set" /\ call.replaced)
             => HasRecord(records, getLastSavedInstanceId(call.record.enketoId))
    /\ \A id \in Surveys : Cardinality(Named(records, id, "__lastSaved_")) <= 1

LastSavedUnchanged ==
    \A id \in Surveys :
        getLastSavedRecord(records', id) = getLastSavedRecord(records, id)

\* C7: a draft save, an autosave update, an upload made without the last-saved
\* option and a failed save leave the last-saved record as it was: the first
\* three do not touch it, and a save that fails leaves the snapshot that was
\* stored before it.
C7_ChangedOnlyBySave ==
    [][/\ (\E i \in RecordIds, c \in Contents :
              SaveSet(i, c, TRUE) \/ SaveUpdate(i, c, TRUE)) => LastSavedUnchanged
       /\ (\E c \in Contents : UpdateAutoSavedRecord(c)) => LastSavedUnchanged
       /\ (UploadStart \/ UploadRemove \/ \E ok \in BOOLEAN : UploadSubmit(ok))
             => LastSavedUnchanged
       /\ (saveCall.pc = "set" /\ saveCall'.pc = "idle" /\ records' = records
              /\ saveCall.replaced /\ upload' = upload)
             => HasRecord(records', getLastSavedInstanceId(saveCall.record.enketoId))
      ]_vars

\* C8: after updateAutoSavedRecord the survey has exactly one autosave record,
\* under the sentinel key, marked draft, with the xml and the files of that
\* call; at no time does a survey have two, or one under another key.
C8_OneAutoSave ==
    /\ [](\A id \in Surveys :
            /\ Cardinality(Named(records, id, "__autoSave_")) <= 1
            /\ \A i \in Named(records, id, "__autoSave_") :
                  records[i].instanceId = getAutoSavedKey(id) /\ records[i].draft)
    /\ [][\A c \in Contents :
            UpdateAutoSavedRecord(c) =>
               LET record == RecordGet(records', getAutoSavedKey(enketoId)) IN
               /\ record # Undefined
               /\ record.xml = c.xml /\ record.files = c.files /\ record.draft
               /\ Cardinality(Named(records', enketoId, "__autoSave_")) = 1]_vars

\* The autosave record holds the content without attachment and is not the
\* newest record of the store: a later call has overwritten it in place.
C8_Witness ==
    /\ Len(records) >= 2
    /\ records[1].instanceId = getAutoSavedKey(enketoId)
    /\ records[1].xml = "x1" /\ records[1].files = <<>>
    /\ records[2].name = "name"

SentinelKeys ==
    {getAutoSavedKey(id) : id \in Surveys} \cup {getLastSavedInstanceId(id) : id \in Surveys}

\* C9: the autosave key and the last-saved key differ, differ between surveys,
\* are never the id of a stored user record, and a step of the page of one
\* survey leaves the last-saved record of every other survey as it was.
C9_KeysApart ==
    /\ [](/\ \A a, b \in Surveys :
               /\ getAutoSavedKey(a) # getLastSavedInstanceId(b)
               /\ a # b => /\ getAutoSavedKey(a) # getAutoSavedKey(b)
                           /\ getLastSavedInstanceId(a) # getLastSavedInstanceId(b)
          /\ \A i \in 1..Len(records) :
               records[i].name = "name" => records[i].instanceId \notin SentinelKeys)
    /\ [][\A id \in Surveys \ {enketoId} :
            getLastSavedRecord(records', id) = getLastSavedRecord(records, id)]_vars

\* Survey "A" has its snapshot of record "r1"; the page of survey "B" has
\* saved "r2" and a snapshot of its own since.
C9_Witness ==
    /\ enketoId = "B"
    /\ getLastSavedRecord(records, "A") # Undefined
    /\ getLastSavedRecord(records, "A").xml = "x1"
    /\ getLastSavedRecord(records, "B") # Undefined
    /\ getLastSavedRecord(records, "B").xml = "x2"
    /\ HasRecord(records, "r2") /\ RecordGet(records, "r2").enketoId = "B"

(***************************************************************************)
(* Properties of the form cache                                            *)
(***************************************************************************)
\* init was called twice for the survey of the page, one call after the
\* other, both calls were answered, and in the meantime the form stayed as it
\* was on the server and stayed in the store.
TwoInits ==
    /\ cacheLog.initCalls = 2 /\ cacheLog.initDone = 2
    /\ ~cacheLog.overlap
    /\ ~cacheLog.changed /\ ~cacheLog.evicted

\* C10: two calls of init for one survey, with the hash on the server
\* unchanged, issue one getFormParts request in total, the requests of the
\* freshness checks included.
C10_OneFetch == TwoInits => cacheLog.formParts = 1

\* Both calls are done and a freshness check has found the survey up to date.
C10_Witness ==
    /\ TwoInits
    /\ cacheLog.upToDate
    /\ cacheLog.formParts = 1
    /\ \A c \in DOMAIN check : check[c].pc = "idle"

\* A FormUpdated event is dispatched in this step.
Emits == cacheLog'.formUpdated # cacheLog.formUpdated

\* Check `c` takes a step (a reload ends the timers).
StepOf(c) == check'[c] # check[c] /\ timers' = timers

\* C11: a freshness check dispatches FormUpdated only in the step that writes
\* the fetched definition to the store, or, with last-save not enabled, after
\* that step; a check that finds the hash equal, or whose fetch or store update
\* fails, dispatches nothing and leaves the store; the update leaves the
\* remembered hash equal to the stored one, and a check that finds the server's
\* hash equal to it fetches nothing and dispatches nothing.
C11_UpdateThenEvent ==
    [][/\ Emits => \E c \in DOMAIN check : StepOf(c)
       /\ \A c \in DOMAIN check :
            LET id == check[c].enketoId IN
            StepOf(c) =>
               /\ Emits =>
                     \/ /\ check[c].pc = "update"
                        /\ surveys'[id] = check[c].survey
                        /\ isLastSaveEnabled(check[c].survey)
                     \/ check[c].pc = "removeLastSaved2"
               /\ check'[c].pc = "removeLastSaved2" =>
                     /\ check[c].pc = "update"
                     /\ surveys'[id] = check[c].survey
               /\ (check[c].pc = "update" /\ surveys' # surveys) =>
                     /\ surveys'[id] = check[c].survey
                     /\ hash' = surveys'[id].hash
               /\ (check[c].pc = "hash" /\ hash = server[id]) =>
                     /\ check'[c].pc \in {"idle", "evict"}
                     /\ ~Emits
                     /\ surveys' = surveys /\ hash' = hash
               /\ check[c].pc \in {"hash", "parts"} =>
                     ~Emits /\ surveys' = surveys]_vars

\* The check has replaced the definition with the one of hash "h2" and has
\* dispatched FormUpdated once; a check has found the survey up to date.
C11_Witness ==
    /\ cacheLog.formUpdated = 1
    /\ cacheLog.upToDate
    /\ ~cacheLog.evicted
    /\ surveys["A"] = FormParts("A", "h2")
    /\ hash = "h2" /\ server["A"] = "h2"
    /\ \A c \in DOMAIN check : check[c].pc = "idle"

\* C12: the catch handler of a freshness check that failed with 404 or 401
\* removes the survey from the store and a removed notification is emitted.
C12_EvictAndNotify ==
    [][\A c \in DOMAIN check :
         CheckEvict(c) =>
            /\ surveys'[check[c].enketoId] = Undefined
            /\ cacheLog'.removed]_vars

UserRecords(store) ==
    SelectSeq(store, LAMBDA record :
        record.instanceId \notin {getLastSavedInstanceId(id) : id \in Surveys})

\* C14: no step of the form cache (remove, flush, init, a freshness check that
\* replaces the definition or evicts the survey) creates, changes or deletes a
\* draft, a queued record or the autosave record.
C14_RecordsUntouched ==
    [][UserRecords(records') = UserRecords(records)]_vars

\* The check has replaced the definition by one with encryption and removed
\* the last-saved record; the draft, the queued and the autosave record stay.
C14_Witness ==
    /\ surveys["A"] = FormParts("A", "h2")
    /\ cacheLog.formUpdated = 1
    /\ records = SubSeq(StoredRecords, 1, 3)

\* The survey was removed from the store and FormCache was not initialised
\* for it anew.
TornDown(id) ==
    /\ surveys[id] = Undefined
    /\ \A k \in DOMAIN init : init[k].pc = "idle"

\* C15: the timers that init starts are cleared on teardown: once the survey
\* is removed from the form cache no hash request is issued for it.
C15_TimersCleared ==
    [][\A c \in DOMAIN check, id \in Surveys :
         (TornDown(id) /\ CheckStart(c, id)) => FALSE]_vars

(***************************************************************************)
(* Properties of the service worker                                        *)
(***************************************************************************)
\* The one key of the form page, and the requests for a form page.
ShellKey == Url(<<"x", "">>, "")
FormUrls == {FormA, FormB, FormAQuery}
FormPage(request) == request.url \in FormUrls /\ request.referrer \in {"", "self"}

\* The handler of the fetch event takes a step (a stopped worker has none).
HandlerStep == fetching' # fetching /\ fetching'.pc # "idle"

\* C16: a request that is not a GET, or not of the worker's origin, is never
\* answered by the worker: no onFetch runs for it, and the event leaves
\* CacheStorage as it is.
C16_PassThrough ==
    /\ [](fetching.pc # "idle" =>
            (fetching.pc = "passed" <=>
               (fetching.request.method # "GET" \/ ~fetching.request.sameOrigin)))
    /\ [][(fetching' # fetching /\ fetching'.pc = "passed") => caches' = caches]_vars

\* The form page is cached and a POST to the form's URL has passed through.
C16_Witness ==
    /\ fetching = [pc |-> "passed", request |-> Req(FormA, "POST", TRUE, "")]
    /\ Match(caches, ShellKey) = Ok("v1")
    /\ Match(caches, FormA) = Sentinel

\* The key onFetch is to use for a request.
KeyOf(request) == IF FormPage(request) THEN ShellKey ELSE request.url

\* C17: every request for a form page, whatever the form and the query
\* string, reads and writes the one entry <base>/x/, and every other request
\* the entry of its own URL: onFetch answers from that entry when it exists,
\* fetches when it does not, and its last write puts the response there and
\* nowhere else.
C17_OneShellKey ==
    [][/\ (fetching.pc = "match" /\ HandlerStep) =>
             LET cached == Match(caches, KeyOf(fetching.request)) IN
             IF cached = NoResponse
             THEN fetching'.pc = "fetch"
             ELSE fetching'.response = cached
       /\ (fetching.pc = "put" /\ fetching'.pc = "responded") =>
             /\ Match(caches', KeyOf(fetching.request)) = fetching.response
             /\ \A n \in CacheNames, k \in Keys \ {KeyOf(fetching.request)} :
                   caches'[n].entries[k] = caches[n].entries[k]]_vars

\* The form page was cached through the request for form "a"; the origin
\* serves a newer page, and the request for form "b" was answered with the
\* cached one and has written it back.
C17_Witness ==
    /\ fetching = [pc |-> "responded", request |-> Req(FormB, "GET", TRUE, ""),
                   response |-> Ok("v1")]
    /\ network = "v2"
    /\ Match(caches, ShellKey) = Ok("v1")
    /\ Match(caches, FormA) = Sentinel
    /\ Match(caches, FormB) = Sentinel

\* C18: a request for the page of a form that has no sentinel entry goes to
\* the network, whatever the shared entry of the form page holds, and the
\* answer is empty when that fetch fails.
C18_NoSentinelNoShell ==
    [][/\ (/\ fetching.pc = "match" /\ HandlerStep
           /\ FormPage(fetching.request)
           /\ Match(caches, fetching.request.url) = NoResponse)
             => fetching'.pc = "fetch"
       /\ (fetching.pc = "fetch" /\ OnFetchNetwork("offline"))
             => fetching'.pc = "responded" /\ fetching'.response = NoResponse]_vars

\* C19: in every state of CacheStorage a form that has its sentinel entry
\* has the form page cached.
C19_SentinelLast ==
    \A url \in FormUrls :
        Match(caches, url) = Sentinel => Match(caches, ShellKey) # NoResponse

\* C20: when onActivate resolves, no partition other than the forms partition
\* is left, the forms partition is as it was, and the clients are claimed.
C20_Activated ==
    [][(activation.pc = "claim" /\ activation'.pc = "done") =>
          /\ \A n \in CacheNames \ {FORMS_CACHE} : ~caches'[n].open
          /\ caches'[FORMS_CACHE] = caches[FORMS_CACHE]
          /\ claimed']_vars

\* C21: the entry of the form page, once cached, stays in CacheStorage through
\* the activation of an updated worker, and a request for the page of a form
\* cached before is answered from it without a network request.
C21_ShellSurvivesUpdate ==
    [][/\ Match(caches, ShellKey) # NoResponse => Match(caches', ShellKey) # NoResponse
       /\ (/\ fetching.pc = "match" /\ HandlerStep
           /\ FormPage(fetching.request)
           /\ Match(caches, fetching.request.url) = Sentinel
           /\ activation.pc = "done")
             => fetching'.pc # "fetch"]_vars

\* A response onFetch may put in a partition.
Cacheable(response) == response.status = 200 /\ response.type \in {"basic", "default"}

Entries(storage, key) ==
    {storage[n].entries[key] : n \in CacheNames} \ {NoResponse}

ReplyType(fetched, cached) ==
    IF fetched = NoResponse \/ fetched.body = "<html>" \/ cached.body = "<html>"
    THEN "FORM_UPDATE_UNKNOWN"
    ELSE IF fetched.body = "{}" \/ cached.body = "{}" \/ fetched.body # cached.body
    THEN "FORM_UPDATED"
    ELSE "FORM_UP_TO_DATE"

\* C24: a reply of checkFormHash carries the id of the request, and its type
\* is FORM_UPDATED when the hash fetched differs from the hash of the cached
\* copy or one of them is missing, FORM_UP_TO_DATE when the two are equal,
\* FORM_UPDATE_UNKNOWN when the check has failed.
C24_ReplyType ==
    \A m \in MessageIds :
        (messages[m].pc = "done" /\ messages[m].replies # <<>>) =>
            /\ Len(messages[m].replies) = 1
            /\ messages[m].replies[1].enketoId = messages[m].data.enketoId
            /\ messages[m].replies[1].type =
                  ReplyType(messages[m].fetched, messages[m].cached)

\* The definition was cached at version v1, the origin serves v2 since; one
\* check, answered with the new hash, has replied FORM_UPDATED and the other,
\* answered without a hash, too.
C24_Witness ==
    /\ network = "v2"
    /\ caches[FORMS_CACHE].entries[TransformA] = Ok("v1")
    /\ messages["m1"].pc = "done" /\ messages["m1"].fetched = Ok("v2")
    /\ messages["m1"].replies = <<[type |-> "FORM_UPDATED", enketoId |-> "a"]>>
    /\ messages["m2"].pc = "done" /\ messages["m2"].fetched.body = "{}"
    /\ messages["m2"].replies = <<[type |-> "FORM_UPDATED", enketoId |-> "a"]>>

\* C25: a CHECK_FORM_HASH message with a string enketoId and url is replied
\* to exactly once when its check ends, also when the worker has no cached
\* copy of the form.
C25_RepliedOnce ==
    \A m \in MessageIds :
        messages[m].pc = "done" =>
            /\ Len(messages[m].replies) = 1
            /\ messages[m].replies[1].type \in
                  {"FORM_UPDATED", "FORM_UP_TO_DATE", "FORM_UPDATE_UNKNOWN"}

(***************************************************************************)
(* Properties of the application cache                                     *)
(***************************************************************************)
\* init ends: the registration promise settles, or there is no
\* navigator.serviceWorker.
InitEnds == appCache.pc \in {"idle", "registering"} /\ appCache'.pc # "registering"
                /\ appCache'.pc # "idle"

\* C26: init has one of three outcomes. Registered without an active worker:
\* the page is reloaded and nothing is reported. Registered with an active
\* worker: no reload, and OfflineLaunchCapable{ capable: true }. No service
\* workers, or registration rejected: OfflineLaunchCapable{ capable: false },
\* and a rejection is thrown on with the original message and stack.
C26_OneOutcome ==
    [][InitEnds =>
         \/ /\ appCache'.pc = "reloading" /\ ~appCache'.active
            /\ appCache'.reloads = 1 /\ appCache'.reports = <<>>
            /\ appCache'.thrown = NoError
         \/ /\ appCache'.pc = "ready" /\ appCache'.active
            /\ appCache'.reloads = 0 /\ appCache'.reports = <<TRUE>>
            /\ appCache'.thrown = NoError
         \/ /\ appCache'.pc = "unsupported"
            /\ appCache'.reloads = 0 /\ appCache'.reports = <<FALSE>>
            /\ appCache'.thrown = NoError
         \/ /\ appCache'.pc = "failed"
            /\ appCache'.reloads = 0 /\ appCache'.reports = <<FALSE>>
            /\ \E error \in RegistrationErrors :
                  /\ RegistrationRejected(error)
                  /\ appCache'.thrown.message[Len(appCache'.thrown.message)] = error.message
                  /\ appCache'.thrown.stack = error.stack]_vars

\* Registration has succeeded where no worker was active: the page reloads,
\* nothing was reported.
C26_Witness ==
    /\ appCache.pc = "reloading" /\ ~appCache.active
    /\ appCache.reloads = 1 /\ appCache.reports = <<>>

\* C27: a controllerchange before the RELOAD_ON_UPDATE_TIMEOUT timer has
\* fired reloads the page and dispatches no ApplicationUpdated; one after it
\* has fired dispatches ApplicationUpdated once and does not reload.
C27_ReloadOrNotify ==
    [][ControllerChange =>
         IF "reloadOnUpdate" \in appCache.timers
         THEN /\ appCache'.reloads = appCache.reloads + 1
              /\ appCache'.applicationUpdated = appCache.applicationUpdated
         ELSE /\ appCache'.applicationUpdated = appCache.applicationUpdated + 1
              /\ appCache'.reloads = appCache.reloads]_vars

\* The timeout has passed, the controller has changed twice since, and the
\* page has notified twice and not reloaded.
C27_Witness ==
    /\ appCache.pc = "ready"
    /\ "reloadOnUpdate" \notin appCache.timers
    /\ appCache.applicationUpdated = 2 /\ appCache.reloads = 0

\* C28: with an active worker the page posts one CHECK_FORM_HASH when it has
\* registered and one more each time the UPDATE_FORM_INTERVAL timer fires,
\* which stays armed; nothing else posts; each message carries the page's id
\* and URL; and FormUpdated is dispatched when and only when a FORM_UPDATED
\* message for the page's own id is received.
C28_ChecksAndNotifies ==
    [][/\ (appCache.pc = "registering" /\ appCache'.pc = "ready") =>
             appCache'.posts = 1 /\ "form" \in appCache'.timers
       /\ ("form" \in appCache.timers /\ FormInterval) =>
             appCache'.posts = appCache.posts + 1 /\ "form" \in appCache'.timers
       /\ (appCache.pc \in {"ready", "reloading"} /\ appCache'.pc = appCache.pc) =>
             /\ appCache'.posts # appCache.posts =>
                   /\ FormInterval
                   /\ appCache'.lastPost = CheckFormHashMessage(appCache.enketoId)
             /\ appCache'.formUpdated # appCache.formUpdated =>
                   appCache'.lastMessage =
                      [type |-> "FORM_UPDATED", enketoId |-> appCache.enketoId]
             /\ (\E type \in WorkerMessageTypes, id \in PageIds :
                    /\ WorkerMessage(type, id)
                    /\ type = "FORM_UPDATED" /\ id = appCache.enketoId) =>
                   appCache'.formUpdated = appCache.formUpdated + 1
       /\ (appCache.pc = "ready" /\ appCache.posts < MaxPosts) => ENABLED FormInterval]_vars

\* The page of form "b" has posted three checks, and has been notified of one
\* update of its form.
C28_Witness ==
    /\ appCache.pc = "ready" /\ appCache.enketoId = "b"
    /\ appCache.posts = 3
    /\ appCache.lastPost = [type |-> "CHECK_FORM_HASH", enketoId |-> "b",
                            url |-> Url(<<"x", "b">>, "")]
    /\ appCache.formUpdated = 1

(***************************************************************************)
(* Properties of the communicator                                          *)
(***************************************************************************)
\* The entries of a form list whose formID is the requested one.
Matching(body, id) ==
    {i \in 1..Len(body.xforms) : body.xforms[i].formID = <<id>>}

\* C29: getXFormInfo succeeds only if exactly one entry of the form list has
\* the requested formID, and then with that entry's info; with no entry, or
\* with more than one entry of that formID, it fails with status 404.
C29_ExactlyOneMatch ==
    (comm.pc = "done" /\ comm.request.ok /\ comm.response.body.xml) =>
        LET matching == Matching(comm.response.body, comm.openRosaId) IN
        IF Cardinality(matching) = 1
        THEN /\ comm.result.ok
             /\ \A i \in matching :
                   /\ comm.result.info.formID = comm.response.body.xforms[i].formID[1]
                   /\ comm.result.info.hash = comm.response.body.xforms[i].hash[1]
        ELSE ~comm.result.ok /\ comm.result.status = 404

InitRequest ==
    /\ InitPage
    /\ enketoId = "A"
    /\ records = <<>>
    /\ server = [id \in Surveys |-> surveys[id].hash]
    /\ WorkerOff
    /\ AppOff

NextRequest ==
    \/ \E kind \in RequestKinds, cookie \in Cookies, credentials \in Credentials,
          agent \in ClientAgents, now \in Clock :
            OpenRosaRequest(kind, cookie, credentials, agent, now)
    \/ \E credentials \in Credentials, agent \in ClientAgents, now \in Clock :
            GetAuthHeader(credentials, agent, now)
    \/ \E headers \in CallerHeaders, agent \in ClientAgents, now \in Clock :
            GetUpdatedRequestHeaders(headers, agent, now)
    \/ WireSettled

SpecRequest == InitRequest /\ [][NextRequest]_vars

\* the words of a header value, without its white space
Words(value) == SelectSeq(value, LAMBDA token : token # Space)

\* C31: every request sent to the origin server, the authorization-header
\* probe included, carries X-OpenRosa-Version 1.0, the Date the module read
\* from its clock, the User-Agent made of the server identity followed by the
\* agent of the current request when there is one, and the fixed timeout.
C31_RequestHeaders ==
    wire.pc = "sent" =>
        /\ wire.headers["X-OpenRosa-Version"] = <<"1.0">>
        /\ wire.headers["Date"] = <<wire.now>>
        /\ Words(wire.headers["User-Agent"]) = <<ServerUserAgent>> \o Words(wire.agent)
        /\ wire.timeout = TIMEOUT

(***************************************************************************)
(* Media requests of two manifests processed at the same time.             *)
(***************************************************************************)
InitMedia == InitRequest

NextMedia ==
    \/ \E m \in Manifests : RequestDataURLMediaMap(m)
    \/ \E k \in LimiterKeys : LimiterLoaded(k)
    \/ \E k \in LimiterKeys : Limit(k)
    \/ \E r \in AllEntries, callback \in Callbacks \ {"no response"} :
            UpstreamCallback(r, callback)

SpecMedia == InitMedia /\ [][NextMedia]_vars

\* the media requests to an origin that wait for the upstream's callback
InFlight(o) ==
    {r \in AllEntries : UrlOf(r).origin = o /\ limiters.requests[r] \in {"head", "get"}}

IsPrefix(s, t) == Len(s) <= Len(t) /\ s = SubSeq(t, 1, Len(s))

InitMediaURL == InitRequest

NextMediaURL ==
    \/ \E config \in Configs : Configure(config)
    \/ \E hostname \in {<<"m">>} : GetManifestHosts("w1", Href("https:", hostname, "", ""))
    \/ resetMediaHosts("w1")
    \/ \E requestProtocol \in {"http", "https"}, url \in MediaHrefs :
            MediaGet("w1", requestProtocol, url)
    \/ MediaGetDone

SpecMediaURL == InitMediaURL /\ [][NextMediaURL]_vars

\* the port a host text stands for under a scheme: none when it is the default
PortUnder(protocol, port) == IF port = DefaultPort(protocol) THEN "" ELSE port

\* C33: the upstream is asked for a media URL only if the URL is https whenever
\* the request is HTTPS or insecure transport is not allowed, and its host,
\* name and port, equals a configured or learned host or, with no such host,
\* matches the server-URL pattern; a rejected URL causes no upstream request.
C33_OnlyMediaHosts ==
    LET get == mediaHosts.get
        config == mediaHosts.config
        hosts == get.hosts
    IN  /\ get.attempted =>
            /\ get.accepted
            /\ (get.protocol = "https" \/ ~config.allowInsecure) => get.url.protocol = "https:"
            /\ hosts # {} =>
                  \E host \in hosts :
                      /\ host.hostname = get.url.hostname
                      /\ PortUnder(get.protocol \o ":", host.port)
                            = PortUnder(get.url.protocol, get.url.port)
            /\ hosts = {} =>
                  PatternTest(config.serverURL,
                              get.url.hostname \o
                                  (IF PortUnder(get.url.protocol, get.url.port) = ""
                                   THEN <<>>
                                   ELSE <<get.url.port>>))
        /\ ~get.accepted => ~get.attempted

\* a URL on a configured host was accepted and requested, with the name of
\* the host standing in another part of the URL as well
C33_Witness ==
    /\ mediaHosts.get.attempted
    /\ mediaHosts.config.mediaHosts = {HostText(<<"h">>, "5678")}
    /\ mediaHosts.get.url = Href("https:", <<"h">>, "5678", "path")

(***************************************************************************)
(* Media hosts learned from manifests, in the master and two workers.      *)
(***************************************************************************)
InitMediaHosts == InitRequest

HostConfigs ==
    {config \in Configs :
        /\ ~config.allowInsecure
        /\ config.mediaHosts \in {{}, {HostText(<<"h">>, "")}}
        /\ ~config.serverURL.anchored}

DownloadUrls == {Href("https:", <<"m">>, "", ""), Href("https:", <<"h">>, "5678", "")}

NextMediaHosts ==
    \/ \E config \in HostConfigs : Configure(config)
    \/ \E p \in Processes, downloadUrl \in DownloadUrls : GetManifestHosts(p, downloadUrl)
    \/ \E w \in ClusterWorkers : AddMediaHostMessage(w)
    \/ \E p \in Processes : resetMediaHosts(p)

SpecMediaHosts == InitMediaHosts /\ [][NextMediaHosts]_vars

\* the URL of a media file on a host
OnHost(host) == Href("https:", host.hostname, host.port, "")

\* C34: once a manifest with a downloadUrl on host H has been fetched and the
\* messages between the processes have arrived, every process, the master
\* and every worker, accepts media URLs on H until its host list is reset.
C34_AcceptedEverywhere ==
    (\A w \in ClusterWorkers : mediaHosts.inbox[w] = <<>>) =>
        \A p \in Processes : \A host \in mediaHosts.since[p] :
            isMediaURL(mediaHosts.config, mediaHosts.learned[p], "https", OnHost(host))

\* C38: a call of addMediaHost, for a manifest or for a message of the master,
\* never revokes access: what isMediaURL accepted in a process before the call,
\* it accepts after it.
C38_NeverRevokes ==
    [][(\/ \E p \in Processes, downloadUrl \in DownloadUrls : GetManifestHosts(p, downloadUrl)
        \/ \E w \in ClusterWorkers : AddMediaHostMessage(w))
       => \A p \in Processes, requestProtocol \in {"http", "https"}, url \in MediaHrefs :
            isMediaURL(mediaHosts.config, mediaHosts.learned[p], requestProtocol, url)
                => isMediaURL(mediaHosts.config', mediaHosts.learned'[p], requestProtocol, url)]_vars

(***************************************************************************)
(* The media-URL cache over the surveys a page loads.                      *)
(***************************************************************************)
InitMediaURLCache == InitRequest

NextMediaURLCache ==
    \/ \E survey \in MediaSurveys : setMediaURLCache(survey)
    \/ \E url \in Asked : getMediaURL(url)

SpecMediaURLCache == InitMediaURLCache /\ [][NextMediaURLCache]_vars

\* the blob URLs created before the last reset of the cache
BlobsBefore == {BlobURLs[i] : i \in 1..mediaURLCache.before}

\* the URL the loaded survey gives for a file name
SurveyURL(i) ==
    IF mediaURLCache.survey.instanceAttachments[i] # Missing
    THEN mediaURLCache.survey.instanceAttachments[i]
    ELSE mediaURLCache.survey.media[i]

\* C35: after setMediaURLCache( survey ) every blob URL created before it is
\* revoked; every entry of the cache belongs to the new survey, the instance
\* attachment winning over the form media of the same name; and no file name
\* resolves to a blob URL created for the survey before.
C35_ResetOnLoad ==
    /\ BlobsBefore \subseteq mediaURLCache.revoked
    /\ \A key \in CacheKeys : mediaURLCache.cache[key] \notin BlobsBefore
    /\ \A i \in DOMAIN FileNames :
          LET value == mediaURLCache.cache[FileName(i)]
          IN  value # Missing =>
                 /\ SurveyURL(i) # Missing
                 /\ IF SurveyURL(i)[1] = "data:"
                    THEN value = mediaURLCache.cache[SurveyURL(i)]
                    ELSE value = SurveyURL(i)
    /\ mediaURLCache.result.asked[1] \in {"file:", "jr:"} =>
          mediaURLCache.result.value \notin BlobsBefore

\* a second survey was loaded, with an attachment that wins over the form's
\* media of its name, and a file name of both surveys was resolved
C35_Witness ==
    /\ mediaURLCache.before > 0
    /\ mediaURLCache.survey.instanceAttachments[1] # Missing
    /\ mediaURLCache.survey.media[1] \notin {Missing, mediaURLCache.survey.instanceAttachments[1]}
    /\ mediaURLCache.result.asked = FileName(1)
    /\ mediaURLCache.result.value[1] = "blob:"

\* C39: after setMediaURLCache( survey ), getMediaURL resolves every file name
\* of survey.media and survey.instanceAttachments, given plainly or as a jr:
\* URL ending in that name, to a URL.
C39_EveryNameResolves ==
    \A i \in DOMAIN FileNames :
        (/\ mediaURLCache.result.asked \in {FileName(i), JrURL(i)}
         /\ SurveyURL(i) # Missing)
            => mediaURLCache.result.value # Missing

(***************************************************************************)
(* The media requests of one manifest, with every callback the upstream    *)
(* can make and with fairness: the limiter is loaded, a waiting request is *)
(* handed over, and the upstream calls back for every request it was sent. *)
(***************************************************************************)
NextMediaFair ==
    \/ RequestDataURLMediaMap("m2")
    \/ \E k \in LimiterKeys : LimiterLoaded(k)
    \/ \E k \in LimiterKeys : Limit(k)
    \/ \E r \in Entries32("m2"), callback \in Callbacks : UpstreamCallback(r, callback)

FairMedia ==
    /\ WF_vars(RequestDataURLMediaMap("m2"))
    /\ \A k \in LimiterKeys : WF_vars(LimiterLoaded(k)) /\ WF_vars(Limit(k))
    /\ \A r \in Entries32("m2") :
          WF_vars(\E callback \in Callbacks : UpstreamCallback(r, callback))

SpecMediaFair == InitMedia /\ [][NextMediaFair]_vars /\ FairMedia

\* C40: every media request handed to the limiter eventually settles and
\* frees its slot, and requestDataURLMediaMap eventually resolves or rejects.
C40_EverySettles ==
    /\ \A r \in Entries32("m2") :
          (limiters.requests[r] \in {"queued", "head", "get"})
              ~> (limiters.requests[r] = "settled")
    /\ (limiters.manifests["m2"] = "pending")
          ~> (limiters.manifests["m2"] \in {"resolved", "rejected"})

(***************************************************************************)
(* Overlapping freshness checks of the cached survey "A" while the form    *)
(* changes once on the server.                                             *)
(***************************************************************************)
InitOverlap ==
    /\ enketoId = "A"
    /\ records = <<>>
    /\ saveCall = IdleCall
    /\ directCall = IdleCall
    /\ upload = IdleUpload
    /\ surveys = CachedSurveys
    /\ hash = surveys[enketoId].hash
    /\ server = [id \in Surveys |-> surveys[id].hash]
    /\ check = [c \in {"c1", "c2"} |-> IdleCheck]
    /\ init = [k \in {"i1"} |-> IdleInit]
    /\ timers = [id \in Surveys |-> id = enketoId]
    /\ acked = {}
    /\ created = {}
    /\ runLog = <<>>
    /\ runList = <<>>
    /\ cacheLog = NoLog
    /\ WorkerOff
    /\ AppOff

\* the one change of the form on the server
ServerUpdateOnce ==
    /\ ~cacheLog.changed
    /\ \E version \in Hashes : ServerUpdate(enketoId, version)

NextOverlap ==
    \/ \E c \in {"c1", "c2"} : CheckSteps(c)
    \/ ServerUpdateOnce

SpecOverlap == InitOverlap /\ [][NextOverlap]_vars

\* C36: with checks that overlap, one change of the server hash causes at most
\* one form-updated event and, while no request fails, at most one request of
\* the full definition.
C36_OneFetchOneEvent ==
    /\ cacheLog.formUpdated <= 1
    /\ (~cacheLog.swallowed /\ ~cacheLog.evicted) => cacheLog.formParts <= 1

(***************************************************************************)
(* One page on which init is called for both surveys, with the checks of   *)
(* their timers.                                                           *)
(***************************************************************************)
InitTwoSurveys ==
    /\ enketoId = "A"
    /\ records = <<>>
    /\ saveCall = IdleCall
    /\ directCall = IdleCall
    /\ upload = IdleUpload
    /\ surveys = [id \in Surveys |-> Undefined]
    /\ hash = "undefined"
    /\ server \in [Surveys -> Hashes]
    /\ check = [c \in {"c1"} |-> IdleCheck]
    /\ init = [k \in {"i1"} |-> IdleInit]
    /\ timers = [id \in Surveys |-> FALSE]
    /\ acked = {}
    /\ created = {}
    /\ runLog = <<>>
    /\ runList = <<>>
    /\ cacheLog = FullLog
    /\ WorkerOff
    /\ AppOff

NextTwoSurveys ==
    \/ \E id \in Surveys : InitSteps("i1", id)
    \/ CheckSteps("c1")
    \/ \E id \in Surveys, version \in Hashes : ServerUpdate(id, version)

SpecTwoSurveys == InitTwoSurveys /\ [][NextTwoSurveys]_vars

\* C37: whenever neither a check nor an init is in progress, the hash the next
\* check of a survey compares against is the hash of that survey's stored
\* definition.
C37_HashOfStoredSurvey ==
    (check["c1"].pc = "idle" /\ init["i1"].pc = "idle") =>
        \A id \in Surveys :
            (timers[id] /\ surveys[id] # Undefined) => hash = surveys[id].hash

====
